---- MODULE Spec2Model ----
(***************************************************************************)
(* A model of the bina entity-component runtime: the Universe frame driver *)
(* (bina-ecs/src/universe.rs) and the entity buffers it owns               *)
(* (bina-ecs/src/entity.rs), with the NumberField staging cell of          *)
(* bina-ecs/src/component.rs carried by every entity.                      *)
(*                                                                         *)
(* Indices are 0-based as in the source; position i of a Vec is element    *)
(* i + 1 of the sequence that models it.                                   *)
(***************************************************************************)
EXTENDS Integers, Sequences, FiniteSets, TLC

\* ------------------------------------------------------------------ bounds
\* Number of entities a universe is ever given (ids 1..MaxEntities).
MaxEntities == 2
\* Longest pending_removes queue the process calls of a universe build.
MaxRemoves == 1
\* Number of entities a buffer driven on its own is ever given.
MaxAdds == 3
\* Longest pending_removes queue built on a buffer driven on its own.
MaxQueued == 3
\* Largest index a buffer driven on its own is asked to remove.
MaxIndex == 3
\* Largest n of LoopCount::Count(n) the driver is called with.
MaxCount == 2
\* Number of += 1 the live fields accumulate together.
MaxStaged == 1
\* BOUND: modifiers that reach one NumberField between two process_modifiers.
MaxOps == 3
\* BOUND: threads that lock components at the same time.
MaxThreads == 2
\* BOUND: threads that ask for process access to one component store.
MaxProcs == 3
\* BOUND: flushes of one component store.
MaxFlushes == 2
\* BOUND: entities with a WatchedFuture that are ever queued.
MaxFutures == 2
\* BOUND: draw instructions that are ever queued.
MaxDraws == 4
\* BOUND: messages that are ever sent to a worker.
MaxMsgs == 3
\* BOUND: ticks counted after an entity was queued.
MaxTicks == 2
\* BOUND: the size of the buffer of random numbers (RANDOM_BYTES_LEN, 256
\* unless set_buffer_size was called).
RandomBytesLen == 2

\* ------------------------------------------------------- program constants
\* The value NumberField::new is called with for every entity of the model
\* (`count: 0.into()` in bina-app/src/main.rs).
InitNumber == 0
\* Width of the u8 fields, mantissa widths of f32 and f64.
U8Bits == 8
F32Mantissa == 24
F64Mantissa == 53

\* -------------------------------------------------------------- the domain
\* Entity shapes (TypeId of EntityBufferStruct<E>) and singleton types.
Shapes == {"A", "B"}
SingletonTypes == {"G"}
SingletonValues == {1}
\* Durations, in nanoseconds; the last one is not representable in an f32.
Durations == {0, 3, 16777217}
\* Wall-clock time a RealDelta tick may measure, in nanoseconds.
Elapsed == {0, 3, 5}

\* A HashMap is a function on the keys it holds.
EmptyMap == [k \in {} |-> TRUE]
Has(map, k) == k \in DOMAIN map
Put(map, k, v) ==
    [x \in DOMAIN map \cup {k} |-> IF x = k THEN v ELSE map[x]]

\* enum EntityIndex
Moving == <<"Moving">>
Freed == <<"Freed">>
Alive(i) == <<"Alive", i>>

Range(s) == {s[k] : k \in 1..Len(s)}

\* ------------------------------------------------------------ float casts
RECURSIVE Pow2(_)
Pow2(k) == IF k = 0 THEN 1 ELSE 2 * Pow2(k - 1)

RECURSIVE BitLen(_)
\* The number of significant bits of n.
BitLen(n) == IF n = 0 THEN 0 ELSE 1 + BitLen(n \div 2)

\* The number of low bits of n that do not fit a mantissa of p bits.
ExcessBits(n, p) == IF BitLen(n) > p THEN BitLen(n) - p ELSE 0

\* n rounded to p significant bits, ties to even (an IEEE-754 conversion).
RoundBits(n, p) ==
    LET e == ExcessBits(n, p)
        unit == Pow2(e)
        q == n \div unit
        r == n % unit
        up == (2 * r > unit) \/ (2 * r = unit /\ q % 2 = 1)
    IN  IF e = 0 THEN n ELSE (IF up THEN q + 1 ELSE q) * unit

\* Duration::as_secs_f32 / as_secs_f64, and `as f32`, in units of 1e-9 s.
AsSecsF32(d) == RoundBits(d, F32Mantissa)
AsSecsF64(d) == RoundBits(d, F64Mantissa)
F64AsF32(x) == RoundBits(x, F32Mantissa)

\* ------------------------------------------------------------ NumberField
\* impl_num!: new_atomic() is Default::default().
NewAtomic == 0

\* NumberField::new(number)
NumberFieldNew(number) == [number |-> number, new_number |-> NewAtomic]

\* atomic_add_assign: fetch_add wraps at the width of the integer.
AtomicAddAssign(field, rhs) ==
    [field EXCEPT !.new_number = (@ + rhs) % Pow2(U8Bits)]

\* impl_num!: atomic_sub_assign is fetch_sub.
AtomicSubAssign(field, rhs) ==
    [field EXCEPT !.new_number = (@ + Pow2(U8Bits) - rhs) % Pow2(U8Bits)]

\* A store that writes the number the field's readers see.
AtomicStoreNumber(field, other) == [field EXCEPT !.number = other]

\* A store that adds to what is staged.
AtomicStoreAdds(field, other) == AtomicAddAssign(field, other)

\* impl_num!: store is Atomic::store.
AtomicStore(field, other) == [field EXCEPT !.new_number = other]

\* impl_num!: add_assign and sub_assign on the number itself; they panic in
\* a build with overflow checks when the result does not fit.
Fits(n) == n >= 0 /\ n < Pow2(U8Bits)
NumAddAssign(number, other) == (number + other) % Pow2(U8Bits)
NumSubAssign(number, other) == (number + Pow2(U8Bits) - other) % Pow2(U8Bits)

\* NumberField::get_ref: the view copies the authoritative number.
GetRef(field) == [number |-> field.number]

\* NumberFieldRef::get, deref and the comparisons read the view's number.
RefGet(ref) == ref.number

\* NumberFieldRef::add_assign / sub_assign / set: what becomes of the view.
RefAddAssign(ref, rhs) == [ref EXCEPT !.number = NumAddAssign(@, rhs)]
RefSubAssign(ref, rhs) == [ref EXCEPT !.number = NumSubAssign(@, rhs)]
RefSet(ref, value) == ref

\* A process_modifiers that takes the staged number and leaves the
\* accumulator empty.
ProcessModifiersDrains(field) ==
    [number |-> field.new_number, new_number |-> NewAtomic]

\* ComponentField::process_modifiers: number = load(new_number).
ProcessModifiers(field) == [field EXCEPT !.number = field.new_number]

\* ----------------------------------------------------------- EntityBuffer
\* EntityWrapper::new(entity, index)
EntityWrapperNew(entity, index) == [entity |-> entity, index |-> Alive(index)]

\* EntityBufferStruct::new()
EntityBufferStructNew ==
    [buffer |-> <<>>, pending_adds |-> <<>>, pending_removes |-> <<>>]

\* Entity::flush of the derived component: process_modifiers on its field.
EntityFlush(w) == [w EXCEPT !.entity.field = ProcessModifiers(@)]

\* self.buffer.par_iter_mut().for_each(|x| x.entity.flush())
FlushEntities(buffer) == [k \in 1..Len(buffer) |-> EntityFlush(buffer[k])]

RECURSIVE SortAsc(_)
\* A min-heap: the indices are drained from lowest to highest.
SortAsc(q) ==
    IF q = <<>> THEN <<>>
    ELSE LET m == CHOOSE x \in Range(q) : \A y \in Range(q) : x <= y
             k == CHOOSE j \in 1..Len(q) : q[j] = m
         IN  <<m>> \o SortAsc(SubSeq(q, 1, k - 1) \o SubSeq(q, k + 1, Len(q)))

RECURSIVE SortDesc(_)
\* BinaryHeap::drain_sorted of the indices pushed from pending_removes.
SortDesc(q) ==
    IF q = <<>> THEN <<>>
    ELSE LET m == CHOOSE x \in Range(q) : \A y \in Range(q) : y <= x
             k == CHOOSE j \in 1..Len(q) : q[j] = m
         IN  <<m>> \o SortDesc(SubSeq(q, 1, k - 1) \o SubSeq(q, k + 1, Len(q)))

\* A swap_remove that drops the last element and leaves the indexed one.
SwapRemoveDropsLast(buffer, index) == SubSeq(buffer, 1, Len(buffer) - 1)

\* Vec::swap_remove(index): the last element takes the place of the removed.
SwapRemove(buffer, index) ==
    [k \in 1..(Len(buffer) - 1) |->
        IF k = index + 1 THEN buffer[Len(buffer)] ELSE buffer[k]]

\* A removal that swap-removes and never stores old_index in the moved entity.
RemoveAtLeavesMoving(buffer, index) ==
    IF index = Len(buffer) - 1
    THEN SubSeq(buffer, 1, Len(buffer) - 1)
    ELSE SwapRemove([buffer EXCEPT ![Len(buffer)].index = Moving], index)

\* The body of the removal loop for one index that is in range.
RemoveAt(buffer, index) ==
    LET old_index == buffer[index + 1].index
    IN  IF index = Len(buffer) - 1
        THEN SubSeq(buffer, 1, Len(buffer) - 1)
        ELSE LET marked == [buffer EXCEPT ![Len(buffer)].index = Moving]
                 swapped == SwapRemove(marked, index)
             IN  [swapped EXCEPT ![index + 1].index = old_index]

\* A removal loop that does not skip an index it has just removed.
SkipIndexNever(index, last) == FALSE

\* if Some(index) == last { continue }
SkipIndex(index, last) == index = last

RECURSIVE RemoveLoop(_, _, _)
\* for index in self.remove_buffer.drain_sorted() { ... }; last = -1 is None.
\* get_unchecked_mut(index) with index past the end is undefined behaviour.
RemoveLoop(buffer, sorted, last) ==
    IF sorted = <<>> THEN [ub |-> FALSE, buffer |-> buffer]
    ELSE IF SkipIndex(Head(sorted), last)
         THEN RemoveLoop(buffer, Tail(sorted), last)
         ELSE IF Head(sorted) >= Len(buffer)
              THEN [ub |-> TRUE, buffer |-> buffer]
              ELSE RemoveLoop(RemoveAt(buffer, Head(sorted)), Tail(sorted),
                              Head(sorted))

RECURSIVE PushAdds(_, _)
\* while let Some(entity) = self.pending_adds.pop() { push(new(entity, len)) }
PushAdds(buffer, adds) ==
    IF adds = <<>> THEN buffer
    ELSE PushAdds(Append(buffer, EntityWrapperNew(Head(adds), Len(buffer))),
                  Tail(adds))

\* EntityBufferStruct::flush: the buffers it may leave. Where the removal loop
\* ran into undefined behaviour the buffer may hold any prefix of its elements.
FlushOutcomes(b) ==
    LET flushed_entities == FlushEntities(b.buffer)
        kept == RemoveLoop(flushed_entities, SortDesc(b.pending_removes), -1)
    IN  IF kept.ub
        THEN {PushAdds(SubSeq(flushed_entities, 1, n), b.pending_adds) :
                 n \in 0..Len(flushed_entities)}
        ELSE {PushAdds(kept.buffer, b.pending_adds)}

\* EntityBufferStruct::queue_add_entity
BufferQueueAddEntity(b, entity) ==
    [b EXCEPT !.pending_adds = Append(@, entity)]

\* A guard that is off by one: index > len.
InRangeInclusive(index, len) == ~(index > len)

\* if index >= self.buffer.len() { return }
InRange(index, len) == ~(index >= len)

\* A queue_remove_entity that swap-removes at once instead of queuing.
BufferRemoveEntityAtOnce(b, index) ==
    IF index < Len(b.buffer)
    THEN [b EXCEPT !.buffer = SwapRemove(b.buffer, index)]
    ELSE b

\* EntityBufferStruct::queue_remove_entity
BufferQueueRemoveEntity(b, index) ==
    IF InRange(index, Len(b.buffer))
    THEN [b EXCEPT !.pending_removes = Append(@, index)]
    ELSE b

\* ------------------------------------------------------------------ state
VARIABLES
    entity_buffers,             \* Universe.entity_buffers: shape -> buffer
    pending_new_entity_buffers, \* Universe.pending_new_entity_buffers
    singletons,                 \* Universe.singletons: type -> value
    pending_new_singletons,     \* Universe.pending_new_singletons
    exit_result,                \* Universe.exit_result: "None", "Ok", "Err"
    delta_accurate,             \* Universe.delta_accurate (f64)
    delta,                      \* Universe.delta (f32)
    pc,                         \* where the thread driving the loop stands
    call,                       \* the loop_once / loop_many call in progress
    ret,                        \* what the last loop_once / loop_many returned
    processed,                  \* process calls of this tick that have returned
    flushed,                    \* flush calls of this tick that have returned
    merged,                     \* closures of the last join that have returned
    next_id,                    \* identity given to the next constructed entity
    snap,                       \* the live state when this tick's process began
    pre_flush,                  \* each buffer as this tick's flush found it
    exit_called,                \* exit_ok / exit_err was called in this process phase
    last_remove,                \* the latest EntityBuffer::queue_remove_entity
                                \* since a flush: its index, the buffer's length
                                \* and the queue it found
    queued_free,                \* entities queued for removal and not flushed since
    freed,                      \* entities queued for removal before a flush phase
    staged,                     \* entities queued for addition in this process phase
    exit_staged,                \* entities queued for addition in the process
                                \* phase of a tick that returned an exit
    num,                        \* a NumberField<u8>: number, new_number
    refs,                       \* its NumberFieldRefs: view -> the view's number
    log,                        \* what reached new_number since process_modifiers
    last_pm,                    \* the calls of process_modifiers so far and, until
                                \* the next get_ref, the field and the log the
                                \* last one found
    mutexes,                    \* component mutex -> the thread that holds it
    threads,                    \* where each thread stands in RefSet::lock
    gate,                       \* a component store's process lock: its counter,
                                \* the process threads and the flushing thread
    flushing,                   \* an EntityBufferStruct whose flush runs one
                                \* store at a time: the buffer, the shared index
                                \* cells and flush's local variables
    futures,                    \* a buffer of entities that hold a WatchedFuture:
                                \* the buffer, each future's cell and channel,
                                \* the try_get calls in progress
    graphics,                   \* the Graphics singleton and the render loop: the
                                \* instruction queue, the two channels, the flush
                                \* and the event handler in progress
    worker,                     \* a Worker: its channel, its requeued messages
                                \* and the recv calls in progress
    query,                      \* an EntityReference and one sibling query made through it
    adders,                     \* the queue_add_entity calls in progress and the holder of the pending-map mutex
    rng                         \* BufferedRng: the shared queue of numbers, the generator's mutex and the next_u64 calls in progress

\* The state of the Universe and of the thread that drives it.
universeVars ==
    <<entity_buffers, pending_new_entity_buffers, singletons,
      pending_new_singletons, exit_result, delta_accurate, delta, pc, call,
      ret, processed, flushed, merged, next_id, snap, pre_flush,
      exit_called, last_remove, queued_free, freed, staged, exit_staged>>
\* A NumberField on its own, and a pair of component mutexes on their own.
fieldVars == <<num, refs, log, last_pm>>
lockVars == <<mutexes, threads>>
\* The parts of the engine that are modelled on their own.
partVars == <<gate, flushing, futures, graphics, worker, query, adders, rng>>
otherVars == <<fieldVars, lockVars, partVars>>

vars == <<universeVars, otherVars>>

LiveShapes == DOMAIN entity_buffers
LiveSingletons == DOMAIN singletons

\* What a reader of the live state can see: the entities of every live buffer
\* with their positions and authoritative field values, and the singletons.
LiveBuffer(b) ==
    [k \in 1..Len(b.buffer) |->
        [id |-> b.buffer[k].entity.id,
         number |-> b.buffer[k].entity.field.number,
         index |-> b.buffer[k].index]]
LiveView ==
    [buffers |-> [s \in LiveShapes |-> LiveBuffer(entity_buffers[s])],
     singletons |-> singletons]

\* The calls the two parallel iterators of a phase make.
ProcessUnits ==
    UNION {{<<"entity", s, i>> : i \in 0..(Len(entity_buffers[s].buffer) - 1)} :
              s \in LiveShapes}
    \cup {<<"singleton", t, 0>> : t \in LiveSingletons}
FlushUnits ==
    {<<"entity", s, 0>> : s \in LiveShapes}
    \cup {<<"singleton", t, 0>> : t \in LiveSingletons}

NoCall ==
    [kind |-> "none", forever |-> FALSE, n |-> 0, fake |-> TRUE, d |-> 0,
     i |-> 0, procs |-> 0, flushes |-> 0, exit_seen |-> FALSE]
NoRemove == [index |-> -1, len |-> -1, before |-> <<>>]
NoSnap == [buffers |-> EmptyMap, singletons |-> EmptyMap]

\* Universe::new()
InitRest ==
    /\ pending_new_entity_buffers = EmptyMap
    /\ singletons = EmptyMap
    /\ pending_new_singletons = EmptyMap
    /\ exit_result = "None"
    /\ delta_accurate = 0
    /\ delta = 0
    /\ call = NoCall
    /\ ret = "NotReturned"
    /\ processed = {}
    /\ flushed = {}
    /\ merged = {}
    /\ next_id = 1
    /\ snap = NoSnap
    /\ pre_flush = EmptyMap
    /\ exit_called = FALSE
    /\ last_remove = NoRemove
    /\ queued_free = {}
    /\ freed = {}
    /\ staged = {}
    /\ exit_staged = {}

\* No process_modifiers has been called on the field.
NoPM ==
    [calls |-> 0, fresh |-> FALSE, before |-> NumberFieldNew(InitNumber),
     log |-> <<>>]

\* The program holds no NumberField of its own and locks no component.
NoField ==
    /\ num = NumberFieldNew(InitNumber)
    /\ refs = EmptyMap
    /\ log = <<>>
    /\ last_pm = NoPM
NoLocks ==
    /\ mutexes = EmptyMap
    /\ threads = EmptyMap
\* No other part of the engine is in use.
NoParts ==
    /\ gate = EmptyMap
    /\ flushing = EmptyMap
    /\ futures = EmptyMap
    /\ graphics = EmptyMap
    /\ worker = EmptyMap
    /\ query = EmptyMap
    /\ adders = EmptyMap
    /\ rng = EmptyMap

Init ==
    /\ entity_buffers = EmptyMap
    /\ pc = "idle"
    /\ InitRest
    /\ NoField
    /\ NoLocks
    /\ NoParts

\* --------------------------------------------------- the Universe's methods
\* The entity a caller constructs and hands to queue_add_entity.
NewEntity ==
    [id |-> next_id, field |-> NumberFieldNew(InitNumber)]

\* An entry that inserts a new buffer whether or not the shape has one.
PendingEntryAlwaysNew(s) == EntityBufferStructNew

\* Entry::Occupied(x) => x.get(), Entry::Vacant(x) => x.insert(new())
PendingEntry(s) ==
    IF Has(pending_new_entity_buffers, s)
    THEN pending_new_entity_buffers[s]
    ELSE EntityBufferStructNew

\* Universe::queue_add_entity
QueueAddEntity(s) ==
    /\ next_id <= MaxEntities
    /\ next_id' = next_id + 1
    /\ IF Has(entity_buffers, s)
       THEN /\ entity_buffers' =
                   [entity_buffers EXCEPT
                       ![s] = BufferQueueAddEntity(@, NewEntity)]
            /\ UNCHANGED pending_new_entity_buffers
       ELSE /\ pending_new_entity_buffers' =
                   Put(pending_new_entity_buffers, s,
                       BufferQueueAddEntity(PendingEntry(s), NewEntity))
            /\ UNCHANGED entity_buffers

\* Universe::queue_remove_entity: the buffer is looked up in the live map only.
QueueRemoveEntity(s, index) ==
    /\ Has(entity_buffers, s)
    /\ index < Len(entity_buffers[s].buffer)
           => Len(entity_buffers[s].pending_removes) < MaxRemoves
    /\ entity_buffers' =
           [entity_buffers EXCEPT ![s] = BufferQueueRemoveEntity(@, index)]
    /\ queued_free' =
           IF index >= Len(entity_buffers[s].buffer) THEN queued_free
           ELSE queued_free
                    \cup {entity_buffers[s].buffer[index + 1].entity.id}

\* Universe::try_get_singleton: Some(value) is <<value>>, None is <<>>.
Lookup(map, t) == IF Has(map, t) THEN <<map[t]>> ELSE <<>>
TryGetSingleton(t) == Lookup(singletons, t)

\* Universe::queue_set_singleton
QueueSetSingleton(t, v) ==
    pending_new_singletons' = Put(pending_new_singletons, t, v)

\* An exit_ok / exit_err that stores nothing.
ExitIgnored(r) == UNCHANGED exit_result

\* Universe::exit_ok / Universe::exit_err
Exit(r) == exit_result' = r

\* ------------------------------------------ between two calls of the driver
MainQueueAddEntity(s) ==
    /\ pc = "idle"
    /\ QueueAddEntity(s)
    /\ UNCHANGED <<singletons, pending_new_singletons, exit_result,
                  delta_accurate, delta, pc, call, ret, processed, flushed,
                  merged, snap, pre_flush, exit_called, last_remove,
                  queued_free, freed, staged, exit_staged, otherVars>>

MainQueueSetSingleton(t, v) ==
    /\ pc = "idle"
    /\ QueueSetSingleton(t, v)
    /\ UNCHANGED <<entity_buffers, pending_new_entity_buffers, singletons,
                  exit_result, delta_accurate, delta, pc, call, ret,
                  processed, flushed, merged, next_id, snap, pre_flush,
                  exit_called, last_remove, queued_free, freed,
                  staged, exit_staged, otherVars>>

MainExit(r) ==
    /\ pc = "idle"
    /\ Exit(r)
    /\ UNCHANGED <<entity_buffers, pending_new_entity_buffers, singletons,
                  pending_new_singletons, delta_accurate, delta, pc, call,
                  ret, processed, flushed, merged, next_id, snap, pre_flush,
                  exit_called, last_remove, queued_free, freed,
                  staged, exit_staged, otherVars>>

\* loop_once is entered: its first join starts the process calls.
EnterLoopOnce ==
    /\ pc' = "process"
    /\ processed' = {}
    /\ flushed' = {}
    /\ merged' = {}
    /\ snap' = LiveView
    /\ pre_flush' = EmptyMap
    /\ exit_called' = FALSE

CallLoopOnce ==
    /\ pc = "idle"
    /\ call' = [NoCall EXCEPT !.kind = "once", !.procs = 1,
                              !.exit_seen = (exit_result # "None")]
    /\ EnterLoopOnce
    /\ UNCHANGED <<entity_buffers, pending_new_entity_buffers, singletons,
                  pending_new_singletons, exit_result, delta_accurate, delta,
                  ret, next_id, last_remove, queued_free, freed,
                  staged, exit_staged, otherVars>>

CallLoopMany(forever, n, fake, d) ==
    /\ pc = "idle"
    /\ call' = [NoCall EXCEPT !.kind = "many", !.forever = forever, !.n = n,
                              !.fake = fake, !.d = d,
                              !.exit_seen = (exit_result # "None")]
    /\ pc' = "loop"
    /\ UNCHANGED <<entity_buffers, pending_new_entity_buffers, singletons,
                  pending_new_singletons, exit_result, delta_accurate, delta,
                  ret, processed, flushed, merged, next_id, snap, pre_flush,
                  exit_called, last_remove, queued_free, freed,
                  staged, exit_staged, otherVars>>

\* for _i in 0..=n
LoopContinuesInclusive == call.forever \/ call.i <= call.n

\* for _i in 0..n, or loop
LoopContinues == call.forever \/ call.i < call.n

\* The head of loop_many's loop: one more loop_once!(), or fall out to None.
\* The ticks of a call are counted where the call is not Forever.
LoopManyNext ==
    /\ pc = "loop"
    /\ IF LoopContinues
       THEN /\ EnterLoopOnce
            /\ call' = [call EXCEPT !.procs = IF call.forever THEN 0 ELSE @ + 1]
            /\ UNCHANGED ret
       ELSE /\ pc' = "returned"
            /\ ret' = "None"
            /\ UNCHANGED <<call, processed, flushed, merged, snap, pre_flush,
                           exit_called>>
    /\ UNCHANGED <<entity_buffers, pending_new_entity_buffers, singletons,
                  pending_new_singletons, exit_result, delta_accurate, delta,
                  next_id, last_remove, queued_free, freed,
                  staged, exit_staged, otherVars>>

\* -------------------------------------------------------- the process phase
\* A process call that has not returned yet.
Running(u) == pc = "process" /\ u \in ProcessUnits \ processed
SomeRunning == \E u \in ProcessUnits : Running(u)

ProcQueueAddEntity(s) ==
    /\ SomeRunning
    /\ QueueAddEntity(s)
    /\ UNCHANGED <<singletons, pending_new_singletons, exit_result,
                  delta_accurate, delta, pc, call, ret, processed, flushed,
                  merged, snap, pre_flush, exit_called, last_remove,
                  queued_free, freed, staged, exit_staged, otherVars>>

\* universe.queue_remove_entity(my_entity): the reference a process call is
\* given carries the shape and the index of its own entity.
ProcQueueRemoveEntity(u) ==
    /\ Running(u)
    /\ u[1] = "entity"
    /\ QueueRemoveEntity(u[2], u[3])
    /\ UNCHANGED <<pending_new_entity_buffers, singletons,
                  pending_new_singletons, exit_result, delta_accurate, delta,
                  pc, call, ret, processed, flushed, merged, next_id, snap,
                  pre_flush, exit_called, last_remove, freed,
                  staged, exit_staged, otherVars>>

ProcQueueSetSingleton(t, v) ==
    /\ SomeRunning
    /\ QueueSetSingleton(t, v)
    /\ UNCHANGED <<entity_buffers, pending_new_entity_buffers, singletons,
                  exit_result, delta_accurate, delta, pc, call, ret,
                  processed, flushed, merged, next_id, snap, pre_flush,
                  exit_called, last_remove, queued_free, freed,
                  staged, exit_staged, otherVars>>

ProcExit(r) ==
    /\ SomeRunning
    /\ Exit(r)
    /\ exit_called' = TRUE
    /\ call' = [call EXCEPT !.exit_seen = TRUE]
    /\ UNCHANGED <<entity_buffers, pending_new_entity_buffers, singletons,
                  pending_new_singletons, delta_accurate, delta, pc, ret,
                  processed, flushed, merged, next_id, snap, pre_flush,
                  last_remove, queued_free, freed,
                  staged, exit_staged, otherVars>>

\* The += 1 staged on all live fields together.
TotalStaged ==
    LET f[S \in SUBSET ProcessUnits] ==
            IF S = {} THEN 0
            ELSE LET u == CHOOSE x \in S : TRUE
                 IN  f[S \ {u}]
                     + (IF u[1] = "entity"
                        THEN entity_buffers[u[2]].buffer[u[3] + 1]
                                 .entity.field.new_number
                        ELSE 0)
    IN  f[ProcessUnits]

\* component.count += 1 on the view of the entity's own field:
\* NumberFieldRef::add_assign reaches the field through atomic_add_assign.
\* The component of shape "A" is the one whose process writes to its field.
ProcFieldAdd(u) ==
    /\ Running(u)
    /\ u[1] = "entity"
    /\ u[2] = "A"
    /\ TotalStaged < MaxStaged
    /\ entity_buffers' =
           [entity_buffers EXCEPT
               ![u[2]].buffer[u[3] + 1].entity.field = AtomicAddAssign(@, 1)]
    /\ UNCHANGED <<pending_new_entity_buffers, singletons,
                  pending_new_singletons, exit_result, delta_accurate, delta,
                  pc, call, ret, processed, flushed, merged, next_id, snap,
                  pre_flush, exit_called, last_remove, queued_free, freed,
                  staged, exit_staged, otherVars>>

\* The process call of one entity or singleton returns.
ProcessDone(u) ==
    /\ Running(u)
    /\ processed' = processed \cup {u}
    /\ UNCHANGED <<entity_buffers, pending_new_entity_buffers, singletons,
                  pending_new_singletons, exit_result, delta_accurate, delta,
                  pc, call, ret, flushed, merged, next_id, snap, pre_flush,
                  exit_called, last_remove, queued_free, freed,
                  staged, exit_staged, otherVars>>

\* A first join that does not wait for the calls it started.
ProcessNotJoined == TRUE

\* rayon::join returns when both parallel iterators have run every call.
ProcessJoined == processed = ProcessUnits

\* A loop_once that does not look at the exit cell before it flushes.
ExitNeverTaken == FALSE

\* if let Some(result) = self.exit_result.take() { return Some(result) }
ExitTaken == exit_result # "None"

\* The first join of loop_once returns; the exit cell is taken.
ProcessJoin ==
    /\ pc = "process"
    /\ ProcessJoined
    /\ exit_result' = "None"
    /\ IF ExitTaken
       THEN /\ pc' = "once_returned"
            /\ ret' = exit_result
       ELSE /\ pc' = "flush"
            /\ UNCHANGED ret
    /\ UNCHANGED <<entity_buffers, pending_new_entity_buffers, singletons,
                  pending_new_singletons, delta_accurate, delta, call,
                  processed, flushed, merged, next_id, snap, pre_flush,
                  exit_called, last_remove, queued_free, freed, otherVars>>

JoinProcess == ProcessJoin /\ UNCHANGED <<staged, exit_staged>>

\* ---------------------------------------------------------- the flush phase
\* EntityBuffer::flush of one live buffer.
FlushBuffer(s) ==
    /\ pc = "flush"
    /\ <<"entity", s, 0>> \in FlushUnits \ flushed
    /\ \E after \in FlushOutcomes(entity_buffers[s]) :
           entity_buffers' =
               [entity_buffers EXCEPT
                   ![s] = [buffer |-> after, pending_adds |-> <<>>,
                           pending_removes |-> <<>>]]
    /\ pre_flush' = Put(pre_flush, s, entity_buffers[s])
    /\ flushed' = flushed \cup {<<"entity", s, 0>>}
    /\ UNCHANGED <<pending_new_entity_buffers, singletons,
                  pending_new_singletons, exit_result, delta_accurate, delta,
                  pc, call, ret, processed, merged, next_id, snap,
                  exit_called, last_remove, queued_free, freed,
                  staged, exit_staged, otherVars>>

\* Singleton::flush, whose default body is empty.
FlushSingleton(t) ==
    /\ pc = "flush"
    /\ <<"singleton", t, 0>> \in FlushUnits \ flushed
    /\ flushed' = flushed \cup {<<"singleton", t, 0>>}
    /\ UNCHANGED <<entity_buffers, pending_new_entity_buffers, singletons,
                  pending_new_singletons, exit_result, delta_accurate, delta,
                  pc, call, ret, processed, merged, next_id, snap, pre_flush,
                  exit_called, last_remove, queued_free, freed,
                  staged, exit_staged, otherVars>>

FlushJoined == flushed = FlushUnits

\* The second join of loop_once returns.
JoinFlush ==
    /\ pc = "flush"
    /\ FlushJoined
    /\ pc' = "merge"
    /\ freed' = freed \cup queued_free
    /\ queued_free' = {}
    /\ call' = [call EXCEPT !.flushes = IF call.forever THEN 0 ELSE @ + 1]
    /\ UNCHANGED <<entity_buffers, pending_new_entity_buffers, singletons,
                  pending_new_singletons, exit_result, delta_accurate, delta,
                  ret, processed, flushed, merged, next_id, snap, pre_flush,
                  exit_called, last_remove, staged, exit_staged, otherVars>>

\* An extend that keeps the value of a key that exists.
ExtendKeepsOld(map, pending) ==
    [k \in DOMAIN map \cup DOMAIN pending |->
        IF Has(map, k) THEN map[k] ELSE pending[k]]

\* HashMap::extend(drain()): every pending key is inserted, replacing the
\* value of a key that exists.
Extend(map, pending) ==
    [k \in DOMAIN map \cup DOMAIN pending |->
        IF Has(pending, k) THEN pending[k] ELSE map[k]]

\* self.singletons.extend(self.pending_new_singletons.drain())
MergeSingletons ==
    /\ pc = "merge"
    /\ "singletons" \notin merged
    /\ singletons' = Extend(singletons, pending_new_singletons)
    /\ pending_new_singletons' = EmptyMap
    /\ merged' = merged \cup {"singletons"}
    /\ UNCHANGED <<entity_buffers, pending_new_entity_buffers, exit_result,
                  delta_accurate, delta, pc, call, ret, processed, flushed,
                  next_id, snap, pre_flush, exit_called, last_remove,
                  queued_free, freed, staged, exit_staged, otherVars>>

\* self.entity_buffers.extend(self.pending_new_entity_buffers.drain())
MergeEntityBuffers ==
    /\ pc = "merge"
    /\ "entity_buffers" \notin merged
    /\ entity_buffers' = Extend(entity_buffers, pending_new_entity_buffers)
    /\ pending_new_entity_buffers' = EmptyMap
    /\ merged' = merged \cup {"entity_buffers"}
    /\ UNCHANGED <<singletons, pending_new_singletons, exit_result,
                  delta_accurate, delta, pc, call, ret, processed, flushed,
                  next_id, snap, pre_flush, exit_called, last_remove,
                  queued_free, freed, staged, exit_staged, otherVars>>

\* The third join returns and loop_once returns None.
JoinMerge ==
    /\ pc = "merge"
    /\ merged = {"singletons", "entity_buffers"}
    /\ pc' = "once_returned"
    /\ ret' = "None"
    /\ UNCHANGED <<entity_buffers, pending_new_entity_buffers, singletons,
                  pending_new_singletons, exit_result, delta_accurate, delta,
                  call, processed, flushed, merged, next_id, snap, pre_flush,
                  exit_called, last_remove, queued_free, freed,
                  staged, exit_staged, otherVars>>

\* ------------------------------------------------------ back in the caller
\* What a RealDelta tick measures: the sleeper fills the tick up to the target.
Measured(d, e) == IF e < d THEN d ELSE e

\* loop_once!() of loop_many: a result is returned at once; after a tick that
\* returned None the deltas of the strategy are stored.
LoopOnceReturned ==
    /\ pc = "once_returned"
    /\ IF call.kind = "once" \/ ret # "None"
       THEN /\ pc' = "returned"
            /\ UNCHANGED <<delta_accurate, delta, call>>
       ELSE /\ pc' = "loop"
            /\ call' = [call EXCEPT !.i = IF call.forever THEN 0 ELSE @ + 1]
            /\ IF call.fake
               THEN /\ delta_accurate' = AsSecsF64(call.d)
                    /\ delta' = AsSecsF32(call.d)
               ELSE \E e \in Elapsed :
                        /\ delta_accurate' = AsSecsF64(Measured(call.d, e))
                        /\ delta' = F64AsF32(AsSecsF64(Measured(call.d, e)))
    /\ UNCHANGED <<entity_buffers, pending_new_entity_buffers, singletons,
                  pending_new_singletons, exit_result, ret, processed,
                  flushed, merged, next_id, snap, pre_flush, exit_called,
                  last_remove, queued_free, freed,
                  staged, exit_staged, otherVars>>

\* The caller of loop_once / loop_many goes on with the value returned.
Resume ==
    /\ pc = "returned"
    /\ pc' = "idle"
    /\ call' = NoCall
    /\ ret' = "NotReturned"
    /\ processed' = {}
    /\ flushed' = {}
    /\ merged' = {}
    /\ snap' = NoSnap
    /\ pre_flush' = EmptyMap
    /\ exit_called' = FALSE
    /\ UNCHANGED <<entity_buffers, pending_new_entity_buffers, singletons,
                  pending_new_singletons, exit_result, delta_accurate, delta,
                  next_id, last_remove, queued_free, freed,
                  staged, exit_staged, otherVars>>

Units ==
    {<<"entity", s, i>> : s \in Shapes, i \in 0..(MaxEntities - 1)}
    \cup {<<"singleton", t, 0>> : t \in SingletonTypes}

\* The steps of one tick, from the first join to the return of loop_once.
Tick ==
    \/ \E u \in Units : ProcessDone(u)
    \/ JoinProcess
    \/ \E s \in Shapes : FlushBuffer(s)
    \/ \E t \in SingletonTypes : FlushSingleton(t)
    \/ JoinFlush
    \/ MergeSingletons
    \/ MergeEntityBuffers
    \/ JoinMerge
    \/ LoopOnceReturned
    \/ Resume

\* A program that drives the universe tick by tick with loop_once.
Next ==
    \/ \E s \in Shapes : MainQueueAddEntity(s)
    \/ \E t \in SingletonTypes, v \in SingletonValues :
           MainQueueSetSingleton(t, v)
    \/ CallLoopOnce
    \/ \E s \in Shapes : ProcQueueAddEntity(s)
    \/ \E u \in Units : ProcQueueRemoveEntity(u)
    \/ \E t \in SingletonTypes, v \in SingletonValues :
           ProcQueueSetSingleton(t, v)
    \/ \E r \in {"Ok", "Err"} : ProcExit(r)
    \/ \E u \in Units : ProcFieldAdd(u)
    \/ Tick

Spec == Init /\ [][Next]_vars

\* A program that drives the universe with loop_many, in every strategy, and
\* with loop_once; its process calls only ask for the exit.
LoopNext ==
    \/ MainQueueAddEntity("A")
    \/ \E t \in SingletonTypes, v \in SingletonValues :
           MainQueueSetSingleton(t, v)
    \/ \E r \in {"Ok", "Err"} : MainExit(r)
    \/ \E forever \in BOOLEAN, n \in 0..MaxCount, fake \in BOOLEAN,
          d \in Durations :
           (forever => n = 0) /\ CallLoopMany(forever, n, fake, d)
    \/ CallLoopOnce
    \/ LoopManyNext
    \/ \E r \in {"Ok", "Err"} : ProcExit(r)
    \/ Tick

LoopSpec == Init /\ [][LoopNext]_vars

\* ------------------------------------------------- one EntityBufferStruct
\* The buffer of shape "A" right after EntityBufferStruct::new(), driven
\* through the methods of the EntityBuffer trait.
BufferInit ==
    /\ InitRest
    /\ entity_buffers = Put(EmptyMap, "A", EntityBufferStructNew)
    /\ pc = "buffer"
    /\ NoField
    /\ NoLocks
    /\ NoParts

BufQueueAddEntity ==
    /\ pc = "buffer"
    /\ next_id <= MaxAdds
    /\ next_id' = next_id + 1
    /\ entity_buffers' =
           [entity_buffers EXCEPT !["A"] = BufferQueueAddEntity(@, NewEntity)]
    /\ UNCHANGED <<pending_new_entity_buffers, singletons,
                  pending_new_singletons, exit_result, delta_accurate, delta,
                  pc, call, ret, processed, flushed, merged, snap, pre_flush,
                  exit_called, last_remove, queued_free, freed,
                  staged, exit_staged, otherVars>>

BufQueueRemoveEntity(index) ==
    /\ pc = "buffer"
    /\ Len(entity_buffers["A"].pending_removes) < MaxQueued
    /\ entity_buffers' =
           [entity_buffers EXCEPT !["A"] = BufferQueueRemoveEntity(@, index)]
    /\ last_remove' =
           [index |-> index, len |-> Len(entity_buffers["A"].buffer),
            before |-> entity_buffers["A"].pending_removes]
    /\ UNCHANGED <<pending_new_entity_buffers, singletons,
                  pending_new_singletons, exit_result, delta_accurate, delta,
                  pc, call, ret, processed, flushed, merged, next_id, snap,
                  pre_flush, exit_called, queued_free, freed,
                  staged, exit_staged, otherVars>>

BufFlush ==
    /\ pc = "buffer"
    /\ \E after \in FlushOutcomes(entity_buffers["A"]) :
           entity_buffers' =
               [entity_buffers EXCEPT
                   !["A"] = [buffer |-> after, pending_adds |-> <<>>,
                             pending_removes |-> <<>>]]
    /\ pre_flush' = Put(pre_flush, "A", entity_buffers["A"])
    /\ last_remove' = NoRemove
    /\ UNCHANGED <<pending_new_entity_buffers, singletons,
                  pending_new_singletons, exit_result, delta_accurate, delta,
                  pc, call, ret, processed, flushed, merged, next_id, snap,
                  exit_called, queued_free, freed,
                  staged, exit_staged, otherVars>>

BufferNext ==
    \/ BufQueueAddEntity
    \/ \E index \in 0..MaxIndex : BufQueueRemoveEntity(index)
    \/ BufFlush

BufferSpec == BufferInit /\ [][BufferNext]_vars

\* ------------------------------------------- ticks that end with an exit
\* queue_add_entity called from a process call, the entity remembered as
\* queued in this process phase.
StagedQueueAddEntity(s) ==
    /\ SomeRunning
    /\ QueueAddEntity(s)
    /\ staged' = staged \cup {next_id}
    /\ UNCHANGED <<singletons, pending_new_singletons, exit_result,
                  delta_accurate, delta, pc, call, ret, processed, flushed,
                  merged, snap, pre_flush, exit_called, last_remove,
                  queued_free, freed, exit_staged, otherVars>>

\* The first join returns; where the tick returns an exit, what its process
\* phase queued is remembered.
ExitJoinProcess ==
    /\ ProcessJoin
    /\ staged' = {}
    /\ exit_staged' = IF ExitTaken THEN exit_staged \cup staged ELSE exit_staged

\* A program whose process calls queue entities and ask for the exit, and
\* that calls loop_once again after an exit.
ExitNext ==
    \/ \E t \in SingletonTypes, v \in SingletonValues :
           MainQueueSetSingleton(t, v)
    \/ \E s \in Shapes : MainQueueAddEntity(s)
    \/ CallLoopOnce
    \/ \E s \in Shapes : StagedQueueAddEntity(s)
    \/ \E r \in {"Ok", "Err"} : ProcExit(r)
    \/ \E u \in Units : ProcessDone(u)
    \/ ExitJoinProcess
    \/ \E s \in Shapes : FlushBuffer(s)
    \/ \E t \in SingletonTypes : FlushSingleton(t)
    \/ JoinFlush
    \/ MergeSingletons
    \/ MergeEntityBuffers
    \/ JoinMerge
    \/ LoopOnceReturned
    \/ Resume

ExitSpec == Init /\ [][ExitNext]_vars

\* ------------------------------------------------------ one NumberField
\* The values NumberField::new is called with, the views two threads take of
\* the field, the modifiers they queue, and the ticks of a run.
Bases == {0, 43}
Views == {1, 2}
Modifiers == {<<"Add", 3>>, <<"Add", 5>>, <<"Sub", 1>>, <<"Set", 2>>}
Ticks == {1, 2}

\* What a modifier does to the field, and to the view it is queued through.
Stage(field, m) ==
    CASE m[1] = "Add" -> AtomicAddAssign(field, m[2])
      [] m[1] = "Sub" -> AtomicSubAssign(field, m[2])
      [] m[1] = "Set" -> AtomicStore(field, m[2])
OnView(ref, m) ==
    CASE m[1] = "Add" -> RefAddAssign(ref, m[2])
      [] m[1] = "Sub" -> RefSubAssign(ref, m[2])
      [] m[1] = "Set" -> RefSet(ref, m[2])

\* The call returns: the arithmetic on the view's number does not overflow.
NoPanic(ref, m) ==
    CASE m[1] = "Add" -> Fits(ref.number + m[2])
      [] m[1] = "Sub" -> Fits(ref.number - m[2])
      [] m[1] = "Set" -> TRUE

\* let field = NumberField::new(base)
FieldInit ==
    /\ InitRest
    /\ entity_buffers = EmptyMap
    /\ pc = "field"
    /\ NoLocks
    /\ NoParts
    /\ \E base \in Bases : num = NumberFieldNew(base)
    /\ refs = EmptyMap
    /\ log = <<>>
    /\ last_pm = NoPM

\* let mut view = field.get_ref()
FieldGetRef(v) ==
    /\ pc = "field"
    /\ ~Has(refs, v)
    /\ refs' = Put(refs, v, GetRef(num))
    /\ last_pm' = [NoPM EXCEPT !.calls = last_pm.calls]
    /\ UNCHANGED <<num, log, universeVars, lockVars, partVars>>

\* view += rhs, view -= rhs, view.set(value)
FieldModify(v, m) ==
    /\ pc = "field"
    /\ Has(refs, v)
    /\ Len(log) < MaxOps
    /\ NoPanic(refs[v], m)
    /\ num' = Stage(num, m)
    /\ refs' = [refs EXCEPT ![v] = OnView(@, m)]
    /\ log' = Append(log, [view |-> v, modifier |-> m])
    /\ UNCHANGED <<last_pm, universeVars, lockVars, partVars>>

\* field.process_modifiers(): it takes &mut self, so no view is alive.
FieldProcessModifiers ==
    /\ pc = "field"
    /\ last_pm.calls < Cardinality(Ticks)
    /\ num' = ProcessModifiers(num)
    /\ refs' = EmptyMap
    /\ log' = <<>>
    /\ last_pm' = [calls |-> last_pm.calls + 1, fresh |-> TRUE,
                   before |-> num, log |-> log]
    /\ UNCHANGED <<universeVars, lockVars, partVars>>

FieldNext ==
    \/ \E v \in Views : FieldGetRef(v)
    \/ \E v \in Views, m \in Modifiers : FieldModify(v, m)
    \/ FieldProcessModifiers

FieldSpec == FieldInit /\ [][FieldNext]_vars

\* ---------------------------------------------------------------- locking
\* The components whose mutexes the threads lock.
Components == {"a", "b", "c"}
ThreadIds == 1..MaxThreads

\* A thread that holds its LockToken and is in no lock() call.
IdleThread == [pc |-> "idle", refs |-> <<>>, token |-> TRUE]

\* Mutex::try_lock succeeds on a mutex nobody holds; the locks a thread holds.
IsFree(m) == ~Has(mutexes, m)
Held(t) == {m \in DOMAIN mutexes : mutexes[m] = t}
Release(t) == [m \in DOMAIN mutexes \ Held(t) |-> mutexes[m]]

LockInit ==
    /\ InitRest
    /\ entity_buffers = EmptyMap
    /\ pc = "locks"
    /\ NoField
    /\ NoParts
    /\ mutexes = EmptyMap
    /\ threads = [t \in ThreadIds |-> IdleThread]

\* token.lock(r): RefSet::lock of one ComponentRef calls Mutex::lock.
LockSingle(t, a) ==
    /\ threads[t].pc = "idle"
    /\ threads[t].token
    /\ threads' = [threads EXCEPT
                      ![t] = [pc |-> "lock", refs |-> <<a>>, token |-> FALSE]]
    /\ UNCHANGED <<mutexes, universeVars, fieldVars, partVars>>

\* Mutex::lock returns once the mutex is free.
AcquireSingle(t) ==
    /\ threads[t].pc = "lock"
    /\ IsFree(threads[t].refs[1])
    /\ mutexes' = Put(mutexes, threads[t].refs[1], t)
    /\ threads' = [threads EXCEPT ![t].pc = "locked"]
    /\ UNCHANGED <<universeVars, fieldVars, partVars>>

\* token.lock((r1, r2)): RefSet::lock of a pair enters its loop.
LockPair(t, a, b) ==
    /\ threads[t].pc = "idle"
    /\ threads[t].token
    /\ threads' = [threads EXCEPT
                      ![t] = [pc |-> "try1", refs |-> <<a, b>>, token |-> FALSE]]
    /\ UNCHANGED <<mutexes, universeVars, fieldVars, partVars>>

\* let Some(guard1) = mutex1.try_lock() else { .. }
TryFirst(t) ==
    /\ threads[t].pc = "try1"
    /\ IF IsFree(threads[t].refs[1])
       THEN /\ mutexes' = Put(mutexes, threads[t].refs[1], t)
            /\ threads' = [threads EXCEPT ![t].pc = "try2"]
       ELSE /\ threads' = [threads EXCEPT ![t].pc = "snooze1"]
            /\ UNCHANGED mutexes
    /\ UNCHANGED <<universeVars, fieldVars, partVars>>

\* backoff.snooze() of the first else block returns; continue.
ContinueFirst(t) ==
    /\ threads[t].pc = "snooze1"
    /\ threads' = [threads EXCEPT ![t].pc = "try1"]
    /\ UNCHANGED <<mutexes, universeVars, fieldVars, partVars>>

\* let Some(guard2) = mutex2.try_lock() else { .. }; guard1 is in scope.
TrySecond(t) ==
    /\ threads[t].pc = "try2"
    /\ IF IsFree(threads[t].refs[2])
       THEN /\ mutexes' = Put(mutexes, threads[t].refs[2], t)
            /\ threads' = [threads EXCEPT ![t].pc = "locked"]
       ELSE /\ threads' = [threads EXCEPT ![t].pc = "snooze2"]
            /\ UNCHANGED mutexes
    /\ UNCHANGED <<universeVars, fieldVars, partVars>>

\* backoff.snooze() of the second else block returns; continue leaves the
\* loop body, which drops guard1.
ContinueSecond(t) ==
    /\ threads[t].pc = "snooze2"
    /\ mutexes' = Release(t)
    /\ threads' = [threads EXCEPT ![t].pc = "try1"]
    /\ UNCHANGED <<universeVars, fieldVars, partVars>>

\* Guard::unlock that hands the token back with the guard's locks still held.
UnlockKeepsLocks(t) ==
    /\ threads[t].pc = "locked"
    /\ threads' = [threads EXCEPT ![t] = IdleThread]
    /\ UNCHANGED <<mutexes, universeVars, fieldVars, partVars>>

\* Guard::unlock(guard): the guard is dropped and a LockToken handed back.
Unlock(t) ==
    /\ threads[t].pc = "locked"
    /\ mutexes' = Release(t)
    /\ threads' = [threads EXCEPT ![t] = IdleThread]
    /\ UNCHANGED <<universeVars, fieldVars, partVars>>

\* The guard goes out of scope: its locks are released, the token is gone.
DropGuard(t) ==
    /\ threads[t].pc = "locked"
    /\ mutexes' = Release(t)
    /\ threads' = [threads EXCEPT ![t] = [IdleThread EXCEPT !.token = FALSE]]
    /\ UNCHANGED <<universeVars, fieldVars, partVars>>

LockNext ==
    \E t \in ThreadIds :
        \/ \E a \in Components : LockSingle(t, a)
        \/ AcquireSingle(t)
        \/ \E a \in Components, b \in Components : LockPair(t, a, b)
        \/ TryFirst(t)
        \/ ContinueFirst(t)
        \/ TrySecond(t)
        \/ ContinueSecond(t)
        \/ Unlock(t)
        \/ DropGuard(t)

LockSpec == LockInit /\ [][LockNext]_vars

\* ------------------------------------------- a component store's process lock
\* The counter's width in the model and its reserved high bit.
GateBits == 4
FlushBit == Pow2(GateBits - 1)
GateThreads == 1..MaxProcs

\* The counter is an unsigned integer: fetch_add and fetch_sub wrap.
GateAdd(counter, n) == (counter + n) % Pow2(GateBits)
GateSub(counter, n) == (counter + Pow2(GateBits) - n) % Pow2(GateBits)
FlushBitSet(counter) == counter >= FlushBit

\* The threads that hold process access, and those whose increment is in the
\* counter although they saw the flush bit.
Holders(g) == {t \in GateThreads : g.procs[t] = "in"}
Retracting(g) == {t \in GateThreads : g.procs[t] = "retract"}

gateRest == <<universeVars, fieldVars, lockVars, flushing, futures, graphics, worker, query, adders, rng>>

GateInit ==
    /\ InitRest
    /\ entity_buffers = EmptyMap
    /\ pc = "gate"
    /\ NoField
    /\ mutexes = EmptyMap
    /\ threads = EmptyMap
    /\ flushing = EmptyMap
    /\ futures = EmptyMap
    /\ graphics = EmptyMap
    /\ worker = EmptyMap
    /\ query = EmptyMap
    /\ adders = EmptyMap
    /\ rng = EmptyMap
    /\ gate = [counter |-> 0, procs |-> [t \in GateThreads |-> "idle"],
               flush |-> "idle", flushes |-> 0]

\* A thread arrives to acquire process access.
GateArrive(t) ==
    /\ gate.procs[t] = "idle"
    /\ gate' = [gate EXCEPT !.procs[t] = "acquire"]
    /\ UNCHANGED gateRest

\* An acquirer that enters whatever the counter shows.
GateIncrementEnters(t) ==
    /\ gate.procs[t] = "acquire"
    /\ gate' = [gate EXCEPT !.counter = GateAdd(@, 1), !.procs[t] = "in"]
    /\ UNCHANGED gateRest

\* The acquirer increments the counter; it has process access unless the
\* counter shows the flush bit.
GateIncrement(t) ==
    /\ gate.procs[t] = "acquire"
    /\ gate' = [gate EXCEPT
                   !.counter = GateAdd(@, 1),
                   !.procs[t] = IF FlushBitSet(GateAdd(gate.counter, 1))
                                THEN "retract" ELSE "in"]
    /\ UNCHANGED gateRest

\* The acquirer that saw the flush bit retracts its increment.
GateRetract(t) ==
    /\ gate.procs[t] = "retract"
    /\ gate' = [gate EXCEPT !.counter = GateSub(@, 1), !.procs[t] = "spin"]
    /\ UNCHANGED gateRest

\* The acquirer spins until the flush bit is clear, then retries.
GateSpin(t) ==
    /\ gate.procs[t] = "spin"
    /\ ~FlushBitSet(gate.counter)
    /\ gate' = [gate EXCEPT !.procs[t] = "acquire"]
    /\ UNCHANGED gateRest

\* A holder releases process access: it decrements the counter.
GateRelease(t) ==
    /\ gate.procs[t] = "in"
    /\ gate' = [gate EXCEPT !.counter = GateSub(@, 1), !.procs[t] = "idle"]
    /\ UNCHANGED gateRest

\* The flush marks its intent: it adds the reserved value to the counter.
GateMark ==
    /\ gate.flush = "idle"
    /\ gate.flushes < MaxFlushes
    /\ gate' = [gate EXCEPT !.counter = GateAdd(@, FlushBit),
                            !.flush = "wait", !.flushes = @ + 1]
    /\ UNCHANGED gateRest

\* A flush that goes on as soon as its own bit is in the counter.
GateDrainedEarly ==
    /\ gate.flush = "wait"
    /\ FlushBitSet(gate.counter)
    /\ gate' = [gate EXCEPT !.flush = "mutate"]
    /\ UNCHANGED gateRest

\* The flush spins until the counter equals the reserved value.
GateDrained ==
    /\ gate.flush = "wait"
    /\ gate.counter = FlushBit
    /\ gate' = [gate EXCEPT !.flush = "mutate"]
    /\ UNCHANGED gateRest

\* The mutation is done: the flush subtracts the reserved value.
GateUnmark ==
    /\ gate.flush = "mutate"
    /\ gate' = [gate EXCEPT !.counter = GateSub(@, FlushBit),
                            !.flush = "idle"]
    /\ UNCHANGED gateRest

GateStep(t) ==
    \/ GateIncrement(t)
    \/ GateRetract(t)
    \/ GateSpin(t)
    \/ GateRelease(t)
GateFlush == GateMark \/ GateDrained \/ GateUnmark

GateNext ==
    \/ \E t \in GateThreads : GateArrive(t) \/ GateStep(t)
    \/ GateFlush

GateSpec == GateInit /\ [][GateNext]_vars

\* Every thread that is in the protocol and the flush take their next step.
GateFairSpec ==
    /\ GateSpec
    /\ \A t \in GateThreads : WF_vars(GateStep(t))
    /\ WF_vars(GateDrained \/ GateUnmark)

\* --------------------------------- EntityBufferStruct::flush, store by store
\* The entities are named by the order of their queue_add_entity calls; the
\* buffer holds them by position, cells maps each to its Arc'd index cell.
flushingRest == <<universeVars, fieldVars, lockVars, gate, futures, graphics, worker, query, adders, rng>>

\* What is known of the per-entity flush calls of the flush that runs or ran
\* last: the buffer it found and the entities whose flush() has returned.
NoEntityFlush == [ran |-> FALSE, start |-> <<>>, done |-> {}]

StepInit ==
    /\ InitRest
    /\ entity_buffers = EmptyMap
    /\ pc = "flushing"
    /\ NoField
    /\ mutexes = EmptyMap
    /\ threads = EmptyMap
    /\ gate = EmptyMap
    /\ futures = EmptyMap
    /\ graphics = EmptyMap
    /\ worker = EmptyMap
    /\ query = EmptyMap
    /\ adders = EmptyMap
    /\ rng = EmptyMap
    /\ flushing = [buffer |-> <<>>, cells |-> EmptyMap, pending_adds |-> <<>>,
                   pending_removes |-> <<>>, remove_buffer |-> <<>>,
                   pc |-> "idle", index |-> -1, last |-> -1,
                   old_index |-> Freed, added |-> 0,
                   todo |-> {}, entity_flush |-> NoEntityFlush]

\* EntityBufferStruct::queue_add_entity
StepQueueAddEntity ==
    /\ flushing.pc = "idle"
    /\ flushing.added < MaxAdds
    /\ flushing' = [flushing EXCEPT !.pending_adds = Append(@, flushing.added + 1),
                                    !.added = @ + 1,
                                    !.entity_flush = NoEntityFlush]
    /\ UNCHANGED flushingRest

\* EntityBufferStruct::queue_remove_entity with an index in range
StepQueueRemoveEntity(index) ==
    /\ flushing.pc = "idle"
    /\ Len(flushing.pending_removes) < MaxQueued
    /\ InRange(index, Len(flushing.buffer))
    /\ flushing' = [flushing EXCEPT !.pending_removes = Append(@, index),
                                    !.entity_flush = NoEntityFlush]
    /\ UNCHANGED flushingRest

\* flush is called: self.buffer.par_iter_mut().for_each(..) begins with every
\* entity of the buffer.
StepFlushCall ==
    /\ flushing.pc = "idle"
    /\ flushing' = [flushing EXCEPT
                       !.pc = "entities",
                       !.todo = Range(flushing.buffer),
                       !.entity_flush = [ran |-> TRUE, start |-> flushing.buffer,
                                         done |-> {}]]
    /\ UNCHANGED flushingRest

\* |x| x.entity.flush() of one entity, in any order.
StepEntityFlush(entity) ==
    /\ flushing.pc = "entities"
    /\ entity \in flushing.todo
    /\ flushing' = [flushing EXCEPT !.todo = @ \ {entity},
                                    !.entity_flush.done = @ \cup {entity}]
    /\ UNCHANGED flushingRest

\* for_each has returned for every entity.
EntitiesJoinedEarly == TRUE

EntitiesJoined == flushing.todo = {}

\* for_each has returned: pending_removes is moved to remove_buffer;
\* let mut last = None
StepDrainRemoves ==
    /\ flushing.pc = "entities"
    /\ EntitiesJoined
    /\ flushing' = [flushing EXCEPT !.remove_buffer = SortDesc(flushing.pending_removes),
                                    !.pending_removes = <<>>,
                                    !.last = -1,
                                    !.pc = "loop"]
    /\ UNCHANGED flushingRest

\* if Some(index) == last { continue }
StepSkip ==
    /\ flushing.pc = "loop"
    /\ flushing.remove_buffer # <<>>
    /\ SkipIndex(Head(flushing.remove_buffer), flushing.last)
    /\ flushing' = [flushing EXCEPT !.remove_buffer = Tail(@)]
    /\ UNCHANGED flushingRest

\* last = Some(index); let old_index = removed.index.swap(EntityIndex::Freed)
StepSwapFreed ==
    /\ flushing.pc = "loop"
    /\ flushing.remove_buffer # <<>>
    /\ ~SkipIndex(Head(flushing.remove_buffer), flushing.last)
    /\ InRange(Head(flushing.remove_buffer), Len(flushing.buffer))
    /\ LET index == Head(flushing.remove_buffer)
           removed == flushing.buffer[index + 1]
       IN  flushing' = [flushing EXCEPT !.remove_buffer = Tail(@),
                                       !.index = index,
                                       !.last = index,
                                       !.old_index = flushing.cells[removed],
                                       !.cells[removed] = Freed,
                                       !.pc = "freed"]
    /\ UNCHANGED flushingRest

\* if index == self.buffer.len() - 1 { self.buffer.pop() }
StepPop ==
    /\ flushing.pc = "freed"
    /\ flushing.index = Len(flushing.buffer) - 1
    /\ flushing' = [flushing EXCEPT !.buffer = SubSeq(@, 1, Len(@) - 1),
                                    !.pc = "loop"]
    /\ UNCHANGED flushingRest

\* A removal that swaps without marking the last element as Moving.
StepStoreMovingSkips ==
    /\ flushing.pc = "freed"
    /\ flushing.index # Len(flushing.buffer) - 1
    /\ flushing' = [flushing EXCEPT !.pc = "moving"]
    /\ UNCHANGED flushingRest

\* else: last.index.store(EntityIndex::Moving)
StepStoreMoving ==
    /\ flushing.pc = "freed"
    /\ flushing.index # Len(flushing.buffer) - 1
    /\ flushing' = [flushing EXCEPT
                       !.cells[flushing.buffer[Len(flushing.buffer)]] = Moving,
                       !.pc = "moving"]
    /\ UNCHANGED flushingRest

\* self.buffer.swap_remove(index)
StepSwapRemove ==
    /\ flushing.pc = "moving"
    /\ flushing' = [flushing EXCEPT !.buffer = SwapRemove(@, flushing.index),
                                    !.pc = "swapped"]
    /\ UNCHANGED flushingRest

\* A removal that leaves the moved element's cell as it is.
StepStoreIndexSkips ==
    /\ flushing.pc = "swapped"
    /\ flushing' = [flushing EXCEPT !.pc = "loop"]
    /\ UNCHANGED flushingRest

\* self.buffer.get_unchecked(index).index.store(old_index)
StepStoreIndex ==
    /\ flushing.pc = "swapped"
    /\ flushing' = [flushing EXCEPT
                       !.cells = Put(@, flushing.buffer[flushing.index + 1],
                                     flushing.old_index),
                       !.pc = "loop"]
    /\ UNCHANGED flushingRest

\* The removal loop is over: self.buffer.reserve(self.pending_adds.len())
StepReserve ==
    /\ flushing.pc = "loop"
    /\ flushing.remove_buffer = <<>>
    /\ flushing' = [flushing EXCEPT !.pc = "adds"]
    /\ UNCHANGED flushingRest

\* self.buffer.push(EntityWrapper::new(entity, self.buffer.len()))
StepPush ==
    /\ flushing.pc = "adds"
    /\ flushing.pending_adds # <<>>
    /\ LET entity == Head(flushing.pending_adds)
       IN  flushing' = [flushing EXCEPT
                           !.cells = Put(@, entity,
                                         EntityWrapperNew(entity,
                                             Len(flushing.buffer)).index),
                           !.buffer = Append(@, entity),
                           !.pending_adds = Tail(@)]
    /\ UNCHANGED flushingRest

\* flush returns
StepReturn ==
    /\ flushing.pc = "adds"
    /\ flushing.pending_adds = <<>>
    /\ flushing' = [flushing EXCEPT !.pc = "idle"]
    /\ UNCHANGED flushingRest

StepNext ==
    \/ StepQueueAddEntity
    \/ \E index \in 0..MaxIndex : StepQueueRemoveEntity(index)
    \/ StepFlushCall
    \/ \E entity \in 1..MaxAdds : StepEntityFlush(entity)
    \/ StepDrainRemoves
    \/ StepSkip
    \/ StepSwapFreed
    \/ StepPop
    \/ StepStoreMoving
    \/ StepSwapRemove
    \/ StepStoreIndex
    \/ StepReserve
    \/ StepPush
    \/ StepReturn

StepSpec == StepInit /\ [][StepNext]_vars

\* ------------------------------------------------- entities with a WatchedFuture
FutureIds == 1..MaxFutures
\* The threads of the process phase that call try_get.
Callers == {1, 2}
futuresRest == <<universeVars, fieldVars, lockVars, gate, flushing, graphics, worker, query, adders, rng>>

\* No try_get call in progress; last is what the latest flush found and left,
\* until the next call of any method.
NoCaller == [pc |-> "out", entity |-> 0, got |-> "None"]
NoFutureFlush == [ran |-> FALSE, before |-> {}, taken |-> {}, ok |-> {},
                  queued |-> {}, after |-> {}]

FutureInit ==
    /\ InitRest
    /\ entity_buffers = EmptyMap
    /\ pc = "futures"
    /\ NoField
    /\ mutexes = EmptyMap
    /\ threads = EmptyMap
    /\ gate = EmptyMap
    /\ flushing = EmptyMap
    /\ graphics = EmptyMap
    /\ worker = EmptyMap
    /\ query = EmptyMap
    /\ adders = EmptyMap
    /\ rng = EmptyMap
    /\ futures = [buffer |-> <<>>, pending_adds |-> <<>>,
                  pending_removes |-> <<>>, value |-> EmptyMap,
                  channel |-> EmptyMap,
                  calls |-> [t \in Callers |-> NoCaller],
                  ok |-> {}, last |-> NoFutureFlush]

\* The entities of a buffer and the position of one of them.
BufferIds(buffer) == {buffer[k].entity : k \in 1..Len(buffer)}
PositionOf(buffer, e) == CHOOSE k \in 1..Len(buffer) : buffer[k].entity = e

\* The indices the entities' flushes push onto pending_removes, in one of the
\* orders the parallel calls may push them.
SetToSeq(S) == CHOOSE s \in [1..Cardinality(S) -> S] : Range(s) = S

\* A flush that never queues the removal of its entity.
WatchedFutureFlushKeeps(value, channel) ==
    [value |-> IF value = "Pending"
               THEN IF channel = "sent" THEN "Done"
                    ELSE IF channel = "empty" THEN "Pending" ELSE "Failed"
               ELSE value,
     remove |-> FALSE]

\* WatchedFuture::flush: what becomes of the cell and whether
\* universe.queue_remove_entity(my_entity) is called.
WatchedFutureFlush(value, channel) ==
    IF value = "Pending"
    THEN [value |-> IF channel = "sent" THEN "Done"
                    ELSE IF channel = "empty" THEN "Pending" ELSE "Failed",
          remove |-> FALSE]
    ELSE IF value = "Taken"
         THEN [value |-> "Taken", remove |-> TRUE]
         ELSE [value |-> value, remove |-> FALSE]

\* WatchedFuture::try_get: what it stores for the value it swapped out, and
\* what it returns.
TryGetStore(got) == IF got = "Done" THEN "Taken" ELSE got
TryGetResult(got) ==
    IF got = "Done" THEN "Ok"
    ELSE IF got = "Failed" THEN "FutureFailed" ELSE got

\* WatchedFuture::new and queue_add_entity of the entity that holds it.
FutQueueAddEntity ==
    /\ Cardinality(DOMAIN futures.value) < MaxFutures
    /\ LET e == Cardinality(DOMAIN futures.value) + 1
       IN  futures' = [futures EXCEPT !.last = NoFutureFlush, !.pending_adds = Append(@, e),
                                      !.value = Put(@, e, "Pending"),
                                      !.channel = Put(@, e, "empty")]
    /\ UNCHANGED futuresRest

\* The spawned task ends: sender.send(fut.await)
FutSend(e) ==
    /\ Has(futures.channel, e)
    /\ futures.channel[e] = "empty"
    /\ futures' = [futures EXCEPT !.last = NoFutureFlush, !.channel[e] = "sent"]
    /\ UNCHANGED futuresRest

\* The spawned task is dropped before it sends.
FutClose(e) ==
    /\ Has(futures.channel, e)
    /\ futures.channel[e] = "empty"
    /\ futures' = [futures EXCEPT !.last = NoFutureFlush, !.channel[e] = "closed"]
    /\ UNCHANGED futuresRest

\* A process call queues the removal of an entity itself.
FutQueueRemoveEntity(index) ==
    /\ Len(futures.pending_removes) < MaxRemoves
    /\ InRange(index, Len(futures.buffer))
    /\ futures' = [futures EXCEPT !.last = NoFutureFlush, !.pending_removes = Append(@, index)]
    /\ UNCHANGED futuresRest

\* A process call starts try_get on the future of a live entity.
FutTryGet(t, e) ==
    /\ futures.calls[t].pc = "out"
    /\ e \in BufferIds(futures.buffer)
    /\ futures' = [futures EXCEPT !.last = NoFutureFlush, !.calls[t] = [pc |-> "swap", entity |-> e,
                                               got |-> "None"]]
    /\ UNCHANGED futuresRest

\* A try_get that reads the cell and leaves it as it is.
FutSwapLoads(t) ==
    /\ futures.calls[t].pc = "swap"
    /\ LET e == futures.calls[t].entity
           got == futures.value[e]
       IN  futures' = [futures EXCEPT !.last = NoFutureFlush,
                          !.calls[t].got = got,
                          !.calls[t].pc = IF got = "Moving" THEN "snooze"
                                          ELSE "store"]
    /\ UNCHANGED futuresRest

\* match self.value.swap(FutureValue::Moving)
FutSwap(t) ==
    /\ futures.calls[t].pc = "swap"
    /\ LET e == futures.calls[t].entity
           got == futures.value[e]
       IN  futures' = [futures EXCEPT !.last = NoFutureFlush,
                          !.value[e] = "Moving",
                          !.calls[t].got = got,
                          !.calls[t].pc = IF got = "Moving" THEN "snooze"
                                          ELSE "store"]
    /\ UNCHANGED futuresRest

\* FutureValue::Moving => backoff.snooze()
FutSnooze(t) ==
    /\ futures.calls[t].pc = "snooze"
    /\ futures' = [futures EXCEPT !.last = NoFutureFlush, !.calls[t].pc = "swap"]
    /\ UNCHANGED futuresRest

\* self.value.store(..); break ..
FutStore(t) ==
    /\ futures.calls[t].pc = "store"
    /\ LET e == futures.calls[t].entity
           got == futures.calls[t].got
       IN  futures' = [futures EXCEPT !.last = NoFutureFlush,
                          !.value[e] = TryGetStore(got),
                          !.calls[t] = NoCaller,
                          !.ok = IF TryGetResult(got) = "Ok"
                                 THEN @ \cup {e} ELSE @]
    /\ UNCHANGED futuresRest

\* EntityBufferStruct::flush on the buffer: every entity's flush, then the
\* removals, then the additions.
FutFlush ==
    /\ \A t \in DOMAIN futures.calls : futures.calls[t].pc = "out"
    /\ LET buffer == futures.buffer
           live == BufferIds(buffer)
           outcome == [e \in live |->
                          WatchedFutureFlush(futures.value[e],
                                             futures.channel[e])]
           own == {PositionOf(buffer, e) - 1 : e \in {x \in live : outcome[x].remove}}
           removes == futures.pending_removes \o SortDesc(SetToSeq(own))
           kept == RemoveLoop(buffer, SortDesc(removes), -1)
       IN  \E after \in
               IF kept.ub
               THEN {PushAdds(SubSeq(buffer, 1, n), futures.pending_adds) :
                        n \in 0..Len(buffer)}
               ELSE {PushAdds(kept.buffer, futures.pending_adds)} :
               futures' = [futures EXCEPT
                   !.buffer = after,
                   !.pending_adds = <<>>,
                   !.pending_removes = <<>>,
                   !.value = [e \in DOMAIN futures.value |->
                                 IF e \in live THEN outcome[e].value
                                 ELSE futures.value[e]],
                   !.ok = {},
                   !.last = [ran |-> TRUE, before |-> live,
                             taken |-> {e \in live : futures.value[e] = "Taken"},
                             ok |-> futures.ok,
                             queued |-> {buffer[i + 1].entity :
                                            i \in Range(futures.pending_removes)},
                             after |-> BufferIds(after)]]
    /\ UNCHANGED futuresRest

FutureNext ==
    \/ FutQueueAddEntity
    \/ \E e \in FutureIds : FutSend(e) \/ FutClose(e)
    \/ \E index \in 0..MaxFutures : FutQueueRemoveEntity(index)
    \/ \E t \in DOMAIN futures.calls : \/ \E e \in FutureIds : FutTryGet(t, e)
                                     \/ FutSwap(t)
                                     \/ FutSnooze(t)
                                     \/ FutStore(t)
    \/ FutFlush

FutureSpec == FutureInit /\ [][FutureNext]_vars

\* ------------------------------------- the Graphics singleton and the render loop
graphicsRest == <<universeVars, fieldVars, lockVars, gate, flushing, futures, worker, query, adders, rng>>

\* ArrayQueue::new(1) and sync_channel(1)
FilledCapacity == 1
EmptyCapacity == 1

NoGraphicsFlush == [ran |-> FALSE, found |-> <<>>, batch |-> <<>>]

\* Graphics::run: one empty Vec is sent on the empty-buffer channel before
\* the singleton is queued.
GraphicsInit ==
    /\ InitRest
    /\ entity_buffers = EmptyMap
    /\ pc = "graphics"
    /\ NoField
    /\ mutexes = EmptyMap
    /\ threads = EmptyMap
    /\ gate = EmptyMap
    /\ flushing = EmptyMap
    /\ futures = EmptyMap
    /\ worker = EmptyMap
    /\ query = EmptyMap
    /\ adders = EmptyMap
    /\ rng = EmptyMap
    /\ graphics = [current_instructions_queue |-> <<>>,
                   empty |-> <<(<<>>)>>,
                   filled |-> <<>>,
                   flush |-> [pc |-> "idle", vec |-> <<>>],
                   render |-> [pc |-> "idle", instructions |-> <<>>],
                   queued |-> 0,
                   ub |-> FALSE,
                   handed |-> <<>>,
                   last |-> NoGraphicsFlush]

\* Graphics::queue_draw_instruction, called from a process callback.
GfxQueueDrawInstruction ==
    /\ graphics.flush.pc = "idle"
    /\ graphics.queued < MaxDraws
    /\ graphics' = [graphics EXCEPT
                       !.current_instructions_queue = Append(@, graphics.queued + 1),
                       !.queued = @ + 1,
                       !.last = NoGraphicsFlush]
    /\ UNCHANGED graphicsRest

\* Singleton::flush for Graphics: it returns at once on an empty queue and
\* goes on to recv() otherwise.
GfxFlushCall ==
    /\ graphics.flush.pc = "idle"
    /\ IF graphics.current_instructions_queue = <<>>
       THEN graphics' = [graphics EXCEPT
                            !.last = [ran |-> TRUE, found |-> <<>>,
                                      batch |-> <<>>]]
       ELSE graphics' = [graphics EXCEPT
                            !.flush.pc = "recv",
                            !.last = [ran |-> FALSE,
                                      found |-> graphics.current_instructions_queue,
                                      batch |-> <<>>]]
    /\ UNCHANGED graphicsRest

\* let mut vec = self.empty_instructions_recv.get_mut().recv().unwrap()
GfxFlushRecv ==
    /\ graphics.flush.pc = "recv"
    /\ graphics.empty # <<>>
    /\ graphics' = [graphics EXCEPT !.flush = [pc |-> "drain",
                                              vec |-> Head(graphics.empty)],
                                   !.empty = Tail(@)]
    /\ UNCHANGED graphicsRest

\* The queue is drained into vec and vec is pushed onto the filled queue;
\* unwrap_unchecked on a full queue is undefined behaviour.
GfxFlushPush ==
    /\ graphics.flush.pc = "drain"
    /\ LET vec == graphics.flush.vec \o graphics.current_instructions_queue
       IN  IF Len(graphics.filled) < FilledCapacity
           THEN graphics' = [graphics EXCEPT
                                !.current_instructions_queue = <<>>,
                                !.filled = Append(@, vec),
                                !.flush = [pc |-> "idle", vec |-> <<>>],
                                !.handed = Append(@, vec),
                                !.last = [ran |-> TRUE,
                                          found |-> graphics.last.found,
                                          batch |-> vec]]
           ELSE graphics' = [graphics EXCEPT
                                !.current_instructions_queue = <<>>,
                                !.flush = [pc |-> "idle", vec |-> <<>>],
                                !.ub = TRUE]
    /\ UNCHANGED graphicsRest

\* MainEventsCleared: filled_instructions_receiver.pop() gave a buffer.
RenderPop ==
    /\ graphics.render.pc = "idle"
    /\ graphics.filled # <<>>
    /\ graphics' = [graphics EXCEPT
                       !.render = [pc |-> "popped",
                                   instructions |-> Head(graphics.filled)],
                       !.filled = Tail(@)]
    /\ UNCHANGED graphicsRest

\* get_current_texture() failed: the handler returns and drops instructions.
RenderSurfaceError ==
    /\ graphics.render.pc = "popped"
    /\ graphics' = [graphics EXCEPT
                       !.render = [pc |-> "idle", instructions |-> <<>>]]
    /\ UNCHANGED graphicsRest

\* The frame is drawn and presented; the cleared buffer is sent back.
RenderPresent ==
    /\ graphics.render.pc = "popped"
    /\ IF graphics.render.instructions # <<>>
       THEN /\ Len(graphics.empty) < EmptyCapacity
            /\ graphics' = [graphics EXCEPT
                               !.render = [pc |-> "idle", instructions |-> <<>>],
                               !.empty = Append(@, <<>>)]
       ELSE graphics' = [graphics EXCEPT
                            !.render = [pc |-> "idle", instructions |-> <<>>]]
    /\ UNCHANGED graphicsRest

GraphicsNext ==
    \/ GfxQueueDrawInstruction
    \/ GfxFlushCall
    \/ GfxFlushRecv
    \/ GfxFlushPush
    \/ RenderPop
    \/ RenderSurfaceError
    \/ RenderPresent

GraphicsSpec == GraphicsInit /\ [][GraphicsNext]_vars

\* loop_many calls flush in every tick, a flush and an event handler that can
\* take their next step take it.
GraphicsFairSpec ==
    /\ GraphicsSpec
    /\ WF_vars(GfxFlushCall)
    /\ WF_vars(GfxFlushRecv)
    /\ WF_vars(GfxFlushPush)
    /\ WF_vars(RenderPop)
    /\ WF_vars(RenderSurfaceError \/ RenderPresent)

\* ------------------------------------------------------- locks, scheduled
\* One step of a lock() call of thread t that is in progress.
LockStep(t) ==
    AcquireSingle(t) \/ TryFirst(t) \/ ContinueFirst(t) \/ TrySecond(t) \/ ContinueSecond(t)

\* Every thread inside lock() keeps running and every Guard is given up:
\* unlocked or dropped.
LockFairSpec ==
    /\ LockSpec
    /\ \A t \in ThreadIds : WF_vars(LockStep(t))
    /\ \A t \in ThreadIds : WF_vars(Unlock(t) \/ DropGuard(t))

\* ---------------------------------------------------------------- worker
\* Worker<T>: a channel to the task(s), a channel back from them and the
\* queue of requeued results.
workerRest == <<universeVars, fieldVars, lockVars, gate, flushing, futures, graphics, query, adders, rng>>

\* The tasks of a worker: one for MUTABILITY_ACCESS = Mutable, n (here two)
\* for Immutable(n).
WorkerTasks == {1, 2}

\* What T::exec / T::exec_mut answers for a message.
ExecResults == {"Some", "None", "Close"}

NoMessage == 0

\* Worker::spawn: both channels and the requeued queue are empty and every
\* task runs.
WorkerInit ==
    /\ InitRest
    /\ entity_buffers = EmptyMap
    /\ pc = "worker"
    /\ NoField
    /\ mutexes = EmptyMap
    /\ threads = EmptyMap
    /\ gate = EmptyMap
    /\ flushing = EmptyMap
    /\ futures = EmptyMap
    /\ graphics = EmptyMap
    /\ query = EmptyMap
    /\ adders = EmptyMap
    /\ rng = EmptyMap
    /\ \E tasks \in {{1}, WorkerTasks} :
           worker = [sender |-> <<>>,
                     receiver |-> <<>>,
                     requeued |-> <<>>,
                     tasks |-> tasks,
                     sent |-> 0,
                     calls |-> [t \in Callers |-> [pc |-> "idle", msg |-> NoMessage,
                                                   from |-> "none"]]]

\* Worker::send: the message goes to the task(s); it comes back to the
\* sender when every task has ended.
WorkerSend(result) ==
    /\ worker /= EmptyMap
    /\ worker.sent < MaxMsgs
    /\ worker' = [worker EXCEPT
           !.sent = @ + 1,
           !.sender = IF worker.tasks = {} THEN @
                      ELSE Append(@, [id |-> worker.sent + 1, result |-> result])]
    /\ UNCHANGED workerRest

\* One turn of a task's loop: it takes a message, runs exec, and sends the
\* result back (Some), goes on (None) or stops (Close).
WorkerExec(k) ==
    /\ worker /= EmptyMap
    /\ k \in worker.tasks
    /\ worker.sender /= <<>>
    /\ LET msg == Head(worker.sender) IN
       worker' = [worker EXCEPT
           !.sender = Tail(@),
           !.receiver = IF msg.result = "Some" THEN Append(@, msg.id) ELSE @,
           !.tasks = IF msg.result = "Close" THEN @ \ {k} ELSE @]
    /\ UNCHANGED workerRest

\* A thread calls Worker::recv.
WorkerRecvCall(t) ==
    /\ worker /= EmptyMap
    /\ worker.calls[t].pc = "idle"
    /\ worker' = [worker EXCEPT !.calls[t] = [pc |-> "recv", msg |-> NoMessage,
                                              from |-> "none"]]
    /\ UNCHANGED workerRest

\* The requeued queue is looked at when receiver.recv() fails, never before.
RecvTakesRequeued == worker.receiver = <<>> /\ worker.tasks = {}

\* Worker::recv returns: receiver.recv() blocks while the channel is empty
\* and a task lives; it fails once the channel is empty and every task has
\* ended, and only then is a requeued message popped.
WorkerRecv(t) ==
    /\ worker /= EmptyMap
    /\ worker.calls[t].pc = "recv"
    /\ \/ /\ worker.receiver /= <<>>
          /\ worker' = [worker EXCEPT
                 !.receiver = Tail(@),
                 !.calls[t] = [pc |-> "got", msg |-> Head(worker.receiver),
                               from |-> "receiver"]]
       \/ /\ RecvTakesRequeued
          /\ worker.requeued /= <<>>
          /\ worker' = [worker EXCEPT
                 !.requeued = Tail(@),
                 !.calls[t] = [pc |-> "got", msg |-> Head(worker.requeued),
                               from |-> "requeued"]]
       \/ /\ worker.receiver = <<>>
          /\ worker.tasks = {}
          /\ worker.requeued = <<>>
          /\ worker' = [worker EXCEPT
                 !.calls[t] = [pc |-> "idle", msg |-> NoMessage, from |-> "none"]]
    /\ UNCHANGED workerRest

\* Worker::requeue of the message the thread received.
WorkerRequeue(t) ==
    /\ worker /= EmptyMap
    /\ worker.calls[t].pc = "got"
    /\ worker' = [worker EXCEPT
           !.requeued = Append(@, worker.calls[t].msg),
           !.calls[t] = [pc |-> "idle", msg |-> NoMessage, from |-> "none"]]
    /\ UNCHANGED workerRest

\* The thread keeps the message it received.
WorkerKeep(t) ==
    /\ worker /= EmptyMap
    /\ worker.calls[t].pc = "got"
    /\ worker' = [worker EXCEPT
           !.calls[t] = [pc |-> "idle", msg |-> NoMessage, from |-> "none"]]
    /\ UNCHANGED workerRest

WorkerNext ==
    \/ \E result \in ExecResults : WorkerSend(result)
    \/ \E k \in WorkerTasks : WorkerExec(k)
    \/ \E t \in Callers : WorkerRecvCall(t)
    \/ \E t \in Callers : WorkerRecv(t)
    \/ \E t \in Callers : WorkerRequeue(t)
    \/ \E t \in Callers : WorkerKeep(t)

WorkerSpec == WorkerInit /\ [][WorkerNext]_vars

\* A task that has a message runs it and a recv that can return returns.
WorkerFairSpec ==
    /\ WorkerSpec
    /\ \A k \in WorkerTasks : WF_vars(WorkerExec(k))
    /\ \A t \in Callers : WF_vars(WorkerRecv(t))

\* ----------------------------------------------- concurrent try_get calls
\* The threads that call try_get on one WatchedFuture at a time.
TryGetCallers == {1, 2, 3}

\* One entity with a WatchedFuture stands in the buffer, its future Pending.
TryGetInit ==
    /\ InitRest
    /\ entity_buffers = EmptyMap
    /\ pc = "try_get"
    /\ NoField
    /\ mutexes = EmptyMap
    /\ threads = EmptyMap
    /\ gate = EmptyMap
    /\ flushing = EmptyMap
    /\ graphics = EmptyMap
    /\ worker = EmptyMap
    /\ query = EmptyMap
    /\ adders = EmptyMap
    /\ rng = EmptyMap
    /\ futures = [buffer |-> PushAdds(<<>>, <<1>>), pending_adds |-> <<>>,
                  pending_removes |-> <<>>, value |-> Put(EmptyMap, 1, "Pending"),
                  channel |-> Put(EmptyMap, 1, "empty"),
                  calls |-> [t \in TryGetCallers |-> NoCaller],
                  ok |-> {}, last |-> NoFutureFlush]

\* A thread starts a try_get call.
TryGetCall == \E t \in DOMAIN futures.calls : \E e \in FutureIds : FutTryGet(t, e)

\* One step of a try_get call in progress.
TryGetStep(t) == FutSwap(t) \/ FutSnooze(t) \/ FutStore(t)

TryGetNext ==
    \/ \E e \in FutureIds : FutSend(e) \/ FutClose(e)
    \/ TryGetCall
    \/ \E t \in DOMAIN futures.calls : TryGetStep(t)
    \/ FutFlush

TryGetSpec == TryGetInit /\ [][TryGetNext]_vars

\* A thread inside try_get takes its next step: the thread that swapped
\* Moving in gets to store, a thread that snoozes swaps again.
TryGetFairSpec ==
    /\ TryGetSpec
    /\ \A t \in TryGetCallers : WF_vars(TryGetStep(t))

\* ------------------------------------------------------- entity references
\* EntityReference<(A,)> and EntityReference<(A, B)>: the entity, the
\* addresses of its components and the addresses process() masks.
queryRest == <<universeVars, fieldVars, lockVars, gate, flushing, futures, graphics, worker, adders, rng>>

\* The component types (TypeId) of the model; a component of a zero-sized
\* type may stand at the address of another component of its entity.
ComponentTypes == {"X", "Y", "Z"}
ZeroSized == {"Z"}
Addresses == {0, 1}

\* The tuples (A,) and (A, B), A = B included.
EntityTuples ==
    {<<a>> : a \in ComponentTypes}
        \cup {<<a, b>> : a \in ComponentTypes, b \in ComponentTypes}

\* Where the components of a tuple may lie: two components share an address
\* only when one of them is zero-sized.
TupleLayouts(entity) ==
    {addr \in [1..Len(entity) -> Addresses] :
        \A i, j \in 1..Len(entity) :
            (i # j /\ addr[i] = addr[j])
                => (entity[i] \in ZeroSized \/ entity[j] \in ZeroSized)}

NoQuery == [method |-> "none", T |-> "none", component |-> 0, components |-> <<>>]

QueryInit ==
    /\ InitRest
    /\ entity_buffers = EmptyMap
    /\ pc = "query"
    /\ NoField
    /\ mutexes = EmptyMap
    /\ threads = EmptyMap
    /\ gate = EmptyMap
    /\ flushing = EmptyMap
    /\ futures = EmptyMap
    /\ graphics = EmptyMap
    /\ worker = EmptyMap
    /\ adders = EmptyMap
    /\ rng = EmptyMap
    /\ query = [pc |-> "idle", entity |-> <<>>, addr |-> <<>>, index |-> 0,
                ignore_ptrs |-> <<>>, asked |-> NoQuery]

\* std::ptr::from_ref(&self.entity.i) as usize
RefToUsize(r, i) == r.addr[i]

\* An is_ref_ignored that finds no pointer in ignore_ptrs.
IsRefIgnoredNever(r, i) == FALSE

\* self.ignore_ptrs.binary_search(&ref_to_usize(reference)).is_ok()
IsRefIgnored(r, i) ==
    \E j \in 1..Len(r.ignore_ptrs) : r.ignore_ptrs[j] = RefToUsize(r, i)

\* EntityReference<(A,)>::get_component: 0 is None, i is Some(&entity.i).
GetComponent1(r, T) ==
    IF T = r.entity[1]
    THEN IF IsRefIgnored(r, 1) THEN 0 ELSE 1
    ELSE 0

\* EntityReference<(A,)>::get_components
GetComponents1(r, T) ==
    IF T = r.entity[1]
    THEN IF IsRefIgnored(r, 1) THEN <<>> ELSE <<1>>
    ELSE <<>>

\* EntityReference<(A, B)>::get_component
GetComponent2(r, T) ==
    IF T = r.entity[1]
    THEN IF IsRefIgnored(r, 1) THEN 0 ELSE 1
    ELSE IF T = r.entity[2]
         THEN IF IsRefIgnored(r, 2) THEN 0 ELSE 2
         ELSE 0

\* EntityReference<(A, B)>::get_components
GetComponents2(r, T) ==
    IF T = r.entity[1]
    THEN IF IsRefIgnored(r, 1)
         THEN IF T = r.entity[2]
              THEN IF IsRefIgnored(r, 2) THEN <<>> ELSE <<2>>
              ELSE <<>>
         ELSE IF T = r.entity[2]
              THEN IF IsRefIgnored(r, 2) THEN <<1>> ELSE <<1, 2>>
              ELSE <<1>>
    ELSE IF T = r.entity[2]
         THEN IF IsRefIgnored(r, 2) THEN <<>> ELSE <<2>>
         ELSE <<>>

GetComponent(r, T) ==
    IF Len(r.entity) = 1 THEN GetComponent1(r, T) ELSE GetComponent2(r, T)

GetComponents(r, T) ==
    IF Len(r.entity) = 1 THEN GetComponents1(r, T) ELSE GetComponents2(r, T)

\* Entity::process of (A,) and (A, B): component i is handed an
\* EntityReference whose ignore_ptrs is the address of component i.
QryProcess(entity, addr, i) ==
    /\ query.pc = "idle"
    /\ addr \in TupleLayouts(entity)
    /\ i \in 1..Len(entity)
    /\ query' = [pc |-> "process", entity |-> entity, addr |-> addr, index |-> i,
                 ignore_ptrs |-> <<addr[i]>>, asked |-> NoQuery]
    /\ UNCHANGED queryRest

\* The process call of the component calls get_component::<T>().
QryGetComponent(T) ==
    /\ query.pc = "process"
    /\ query' = [query EXCEPT
           !.asked = [method |-> "get_component", T |-> T,
                      component |-> GetComponent(query, T), components |-> <<>>]]
    /\ UNCHANGED queryRest

\* The process call of the component calls get_components::<T>().
QryGetComponents(T) ==
    /\ query.pc = "process"
    /\ query' = [query EXCEPT
           !.asked = [method |-> "get_components", T |-> T,
                      component |-> 0, components |-> GetComponents(query, T)]]
    /\ UNCHANGED queryRest

\* The process call of the component returns.
QryReturn ==
    /\ query.pc = "process"
    /\ query' = [pc |-> "idle", entity |-> <<>>, addr |-> <<>>, index |-> 0,
                 ignore_ptrs |-> <<>>, asked |-> NoQuery]
    /\ UNCHANGED queryRest

QueryNext ==
    \/ \E entity \in EntityTuples : \E addr \in TupleLayouts(entity) :
           \E i \in 1..Len(entity) : QryProcess(entity, addr, i)
    \/ \E T \in ComponentTypes : QryGetComponent(T)
    \/ \E T \in ComponentTypes : QryGetComponents(T)
    \/ QryReturn

QuerySpec == QueryInit /\ [][QueryNext]_vars

\* ------------------------------------------- racing queue_add_entity calls
\* Universe::queue_add_entity one statement at a time, called by several
\* threads of a process phase, and the ticks between the process phases.
addersRest ==
    <<singletons, pending_new_singletons, exit_result, delta_accurate, delta,
      pc, call, ret, processed, flushed, merged, snap, pre_flush,
      exit_called, last_remove, queued_free, freed, staged, exit_staged,
      fieldVars, lockVars, gate, flushing, futures, graphics, worker, query, rng>>

NoAdder == [pc |-> "out", shape |-> "none", entity |-> 0, locked |-> FALSE]

RaceInit ==
    /\ InitRest
    /\ entity_buffers = EmptyMap
    /\ pc = "race"
    /\ NoField
    /\ mutexes = EmptyMap
    /\ threads = EmptyMap
    /\ gate = EmptyMap
    /\ flushing = EmptyMap
    /\ futures = EmptyMap
    /\ graphics = EmptyMap
    /\ worker = EmptyMap
    /\ query = EmptyMap
    /\ rng = EmptyMap
    /\ adders = [calls |-> [t \in Callers |-> NoAdder], mutex |-> 0,
                 queued |-> {}, ticks |-> EmptyMap, raced |-> {}]

\* A thread calls queue_add_entity(entity) with an entity of shape s.
AddCall(t, s) ==
    /\ adders.calls[t].pc = "out"
    /\ next_id <= MaxAdds
    /\ next_id' = next_id + 1
    /\ adders' = [adders EXCEPT
           !.calls[t] = [pc |-> "get", shape |-> s, entity |-> NewEntity,
                         locked |-> FALSE]]
    /\ UNCHANGED <<entity_buffers, pending_new_entity_buffers, addersRest>>

\* if let Some(buffer) = self.entity_buffers.get().get(&type_id)
AddGet(t) ==
    /\ adders.calls[t].pc = "get"
    /\ adders' = [adders EXCEPT
           !.calls[t].pc = IF Has(entity_buffers, adders.calls[t].shape)
                           THEN "push" ELSE "lock"]
    /\ UNCHANGED <<entity_buffers, pending_new_entity_buffers, next_id, addersRest>>

\* lock = self.pending_new_entity_buffers.lock()
AddLock(t) ==
    /\ adders.calls[t].pc = "lock"
    /\ adders.mutex = 0
    /\ adders' = [adders EXCEPT !.mutex = t,
                                !.calls[t].locked = TRUE,
                                !.calls[t].pc = "entry"]
    /\ UNCHANGED <<entity_buffers, pending_new_entity_buffers, next_id, addersRest>>

\* match lock.entry(type_id): Occupied => the buffer, Vacant => a new one
AddEntry(t) ==
    /\ adders.calls[t].pc = "entry"
    /\ pending_new_entity_buffers' =
           Put(pending_new_entity_buffers, adders.calls[t].shape,
               PendingEntry(adders.calls[t].shape))
    /\ adders' = [adders EXCEPT !.calls[t].pc = "push"]
    /\ UNCHANGED <<entity_buffers, next_id, addersRest>>

\* The entities of the calls that wait for the mutex thread t holds, with
\* the same shape, and the entity of thread t with them.
RacedWith(t) ==
    LET waiting == {u \in Callers \ {t} :
                       /\ adders.calls[u].pc = "lock"
                       /\ adders.calls[u].shape = adders.calls[t].shape}
    IN  IF adders.calls[t].locked /\ waiting # {}
        THEN {adders.calls[u].entity.id : u \in waiting \cup {t}}
        ELSE {}

\* buffer.queue_add_entity(entity); the function returns and the lock, when
\* taken, is dropped.
AddPush(t) ==
    /\ adders.calls[t].pc = "push"
    /\ LET s == adders.calls[t].shape
           entity == adders.calls[t].entity
       IN  /\ IF adders.calls[t].locked
              THEN /\ pending_new_entity_buffers' =
                          [pending_new_entity_buffers EXCEPT
                              ![s] = BufferQueueAddEntity(@, entity)]
                   /\ UNCHANGED entity_buffers
              ELSE /\ entity_buffers' =
                          [entity_buffers EXCEPT
                              ![s] = BufferQueueAddEntity(@, entity)]
                   /\ UNCHANGED pending_new_entity_buffers
           /\ adders' = [adders EXCEPT
                  !.calls[t] = NoAdder,
                  !.mutex = IF adders.calls[t].locked THEN 0 ELSE @,
                  !.queued = @ \cup {entity.id},
                  !.raced = @ \cup RacedWith(t),
                  !.ticks = Put(@, entity.id, 0)]
    /\ UNCHANGED <<next_id, addersRest>>

\* The buffer a flush leaves when it meets no undefined behaviour.
FlushedBuffer(b) ==
    [buffer |-> CHOOSE after \in FlushOutcomes(b) : TRUE,
     pending_adds |-> <<>>, pending_removes |-> <<>>]

\* A loop_once that returns None, between two process phases: every live
\* buffer is flushed, then the pending buffers are merged into the live map.
RaceTick ==
    /\ \A t \in Callers : adders.calls[t].pc = "out"
    /\ \E id \in adders.queued : adders.ticks[id] < MaxTicks
    /\ entity_buffers' =
           Extend([s \in DOMAIN entity_buffers |-> FlushedBuffer(entity_buffers[s])],
                  pending_new_entity_buffers)
    /\ pending_new_entity_buffers' = EmptyMap
    /\ adders' = [adders EXCEPT
           !.ticks = [id \in DOMAIN adders.ticks |->
                         IF adders.ticks[id] < MaxTicks
                         THEN adders.ticks[id] + 1 ELSE adders.ticks[id]]]
    /\ UNCHANGED <<next_id, addersRest>>

AddStep(t) == AddGet(t) \/ AddLock(t) \/ AddEntry(t) \/ AddPush(t)

RaceNext ==
    \/ \E t \in Callers, s \in Shapes : AddCall(t, s)
    \/ \E t \in Callers : AddStep(t)
    \/ RaceTick

RaceSpec == RaceInit /\ [][RaceNext]_vars

\* -------------------------------------------------------------- BufferedRng
\* The static queue RANDOM_BYTES, the mutex of RANDOM and the threads that
\* call next_u64. The numbers themselves play no part: the queue is the
\* count of the numbers it holds.
rngRest ==
    <<universeVars, fieldVars, lockVars, gate, flushing, futures, graphics,
      worker, query, adders>>

RngCallers == {1, 2, 3}

NoRngCall == [pc |-> "out", i |-> 0]

\* Before the first use: RANDOM_BYTES.get_or_init(|| ArrayQueue::new(len))
\* gives an empty queue of capacity len = RANDOM_BYTES_LEN.
RngInit ==
    /\ InitRest
    /\ entity_buffers = EmptyMap
    /\ pc = "rng"
    /\ NoField
    /\ mutexes = EmptyMap
    /\ threads = EmptyMap
    /\ gate = EmptyMap
    /\ flushing = EmptyMap
    /\ futures = EmptyMap
    /\ graphics = EmptyMap
    /\ worker = EmptyMap
    /\ query = EmptyMap
    /\ adders = EmptyMap
    /\ rng = [queue |-> 0, capacity |-> RandomBytesLen, lock |-> 0,
              calls |-> [t \in RngCallers |-> NoRngCall], ub |-> FALSE]

\* A thread calls next_u64: len is loaded and the queue looked up.
RngNextU64(t) ==
    /\ rng.calls[t].pc = "out"
    /\ rng' = [rng EXCEPT !.calls[t] = [pc |-> "pop", i |-> 0]]
    /\ UNCHANGED rngRest

\* queue.pop(): Some(number) is returned, None goes on to the refill.
RngPop(t) ==
    /\ rng.calls[t].pc = "pop"
    /\ IF rng.queue > 0
       THEN rng' = [rng EXCEPT !.queue = @ - 1, !.calls[t] = NoRngCall]
       ELSE rng' = [rng EXCEPT !.calls[t].pc = "lock"]
    /\ UNCHANGED rngRest

\* let mut lock = RANDOM.get_or_init(..).lock()
RngLock(t) ==
    /\ rng.calls[t].pc = "lock"
    /\ rng.lock = 0
    /\ rng' = [rng EXCEPT !.lock = t, !.calls[t].pc = "fill"]
    /\ UNCHANGED rngRest

\* One turn of for _i in 0..len: queue.push(lock.next_u64()); a push onto a
\* full queue returns Err and unwrap_unchecked on it is undefined behaviour.
RngPush(t) ==
    /\ rng.calls[t].pc = "fill"
    /\ rng.calls[t].i < RandomBytesLen
    /\ rng' = [rng EXCEPT
           !.queue = IF rng.queue < rng.capacity THEN @ + 1 ELSE @,
           !.ub = @ \/ rng.queue >= rng.capacity,
           !.calls[t].i = @ + 1]
    /\ UNCHANGED rngRest

\* The loop is over: lock.next_u64() is returned and the lock dropped.
RngReturn(t) ==
    /\ rng.calls[t].pc = "fill"
    /\ rng.calls[t].i = RandomBytesLen
    /\ rng' = [rng EXCEPT !.lock = 0, !.calls[t] = NoRngCall]
    /\ UNCHANGED rngRest

RngNext ==
    \E t \in RngCallers :
        \/ RngNextU64(t)
        \/ RngPop(t)
        \/ RngLock(t)
        \/ RngPush(t)
        \/ RngReturn(t)

RngSpec == RngInit /\ [][RngNext]_vars

\* ------------------------------------------------------------ singletons
\* The values a program sets its singleton to, one after the other.
SetValues == {1, 2}

\* A program that sets a singleton between ticks and from the process calls
\* of its entities and of the singleton itself.
SingletonNext ==
    \/ MainQueueAddEntity("A")
    \/ \E t \in SingletonTypes, v \in SetValues : MainQueueSetSingleton(t, v)
    \/ \E t \in SingletonTypes, v \in SetValues : ProcQueueSetSingleton(t, v)
    \/ \E r \in {"Ok", "Err"} : ProcExit(r)
    \/ CallLoopOnce
    \/ Tick

SingletonSpec == Init /\ [][SingletonNext]_vars

\* ------------------------------------------------------------- properties
Ids(buffer) == {buffer[k].entity.id : k \in 1..Len(buffer)}
LiveIds == UNION {Ids(entity_buffers[s].buffer) : s \in LiveShapes}
PendingIds ==
    UNION {{e.id : e \in Range(entity_buffers[s].pending_adds)} :
              s \in LiveShapes}
    \cup UNION {{e.id : e \in Range(pending_new_entity_buffers[s].pending_adds)} :
                   s \in DOMAIN pending_new_entity_buffers}

\* The process calls of this tick, read off the state its process phase found.
SnapUnits ==
    UNION {{<<"entity", s, i>> : i \in 0..(Len(snap.buffers[s]) - 1)} :
              s \in DOMAIN snap.buffers}
    \cup {<<"singleton", t, 0>> : t \in DOMAIN snap.singletons}

LoopOnceHasReturned == pc \in {"once_returned", "returned"}

\* C1: when exit_ok or exit_err was called in the process phase of a tick,
\* loop_once returns the exit result and, on return, the live buffers, the
\* live singletons and every authoritative field value are what they were
\* when the process phase began.
C1_ExitSkipsFlush ==
    (LoopOnceHasReturned /\ exit_called)
        => (ret \in {"Ok", "Err"} /\ flushed = {} /\ LiveView = snap)

\* A tick has returned on an exit with an addition, a removal, a singleton
\* and a field write staged in it.
C1_Witness ==
    /\ pc = "once_returned"
    /\ exit_called
    /\ pending_new_singletons # EmptyMap
    /\ \E s \in LiveShapes :
           /\ entity_buffers[s].pending_adds # <<>>
           /\ entity_buffers[s].pending_removes # <<>>
           /\ \E k \in 1..Len(entity_buffers[s].buffer) :
                  entity_buffers[s].buffer[k].entity.field.new_number
                      # entity_buffers[s].buffer[k].entity.field.number

\* C2: within a tick, once any flush call has begun every process call of the
\* tick, on every entity of every buffer and on every singleton, has returned.
C2_ProcessBeforeFlush ==
    (pc \in {"flush", "merge"} \/ flushed # {}) => processed = SnapUnits

\* A flush call has returned in a tick that made process calls on an entity
\* and on a singleton.
C2_Witness ==
    /\ pc = "flush"
    /\ flushed # {}
    /\ \E u1 \in processed, u2 \in processed :
           u1[1] = "entity" /\ u2[1] = "singleton"

\* The buffer of the one shape of BufferSpec: as the last flush found it, and
\* as it is now.
Flushed == Has(pre_flush, "A")
Before == pre_flush["A"]
Now == entity_buffers["A"]

\* The distinct in-range indices a flush found queued for removal.
RemovedIndices(b) == {i \in Range(b.pending_removes) : i < Len(b.buffer)}

\* The positions of a queue whose index also stands elsewhere in the queue.
Duplicates(q) == {k \in 1..Len(q) : \E j \in 1..Len(q) : j # k /\ q[j] = q[k]}

Without(q, k) == SubSeq(q, 1, k - 1) \o SubSeq(q, k + 1, Len(q))

\* C3: a flush that finds a buffer of length L with a additions queued and
\* the set R of distinct in-range indices queued for removal leaves a buffer
\* of length L + a - |R|.
C3_Conservation ==
    Flushed =>
        Len(Now.buffer) = Len(Before.buffer) + Len(Before.pending_adds)
                              - Cardinality(RemovedIndices(Before))

\* A flush has acted on queued additions and on two distinct indices, one of
\* them queued twice.
C3_Witness ==
    /\ Flushed
    /\ Before.pending_adds # <<>>
    /\ Cardinality(RemovedIndices(Before)) = 2
    /\ Len(Before.pending_removes) = 3

\* C4: the buffer a flush leaves when an index was queued two or more times,
\* other removals between them or not, is the buffer it leaves when any one
\* of the repeated requests is taken out of the queue.
C4_IdempotentRemoval ==
    Flushed =>
        \A k \in Duplicates(Before.pending_removes) :
            Now.buffer \in
                FlushOutcomes([Before EXCEPT !.pending_removes = Without(@, k)])

\* A flush has acted on a queue that names an index twice with another index
\* between the two requests.
C4_Witness ==
    /\ Flushed
    /\ Len(Before.pending_removes) = 3
    /\ Before.pending_removes[1] = Before.pending_removes[3]
    /\ Before.pending_removes[2] # Before.pending_removes[1]

\* C5: the entities a flush keeps are exactly those whose index was not
\* queued for removal; of three entities with indices 0 and 2 queued, the one
\* that was at index 1 remains, alone, at index 0.
C5_Survivors ==
    Flushed =>
        /\ Ids(Now.buffer) =
               {Before.buffer[k].entity.id :
                   k \in {j \in 1..Len(Before.buffer) :
                             j - 1 \notin Range(Before.pending_removes)}}
               \cup {e.id : e \in Range(Before.pending_adds)}
        /\ (/\ Len(Before.buffer) = 3
            /\ Range(Before.pending_removes) = {0, 2}
            /\ Before.pending_adds = <<>>)
               => /\ Len(Now.buffer) = 1
                  /\ Now.buffer[1].entity.id = Before.buffer[2].entity.id
                  /\ Now.buffer[1].index = Alive(0)

\* A flush has acted on three entities with indices 0 and 2 queued.
C5_Witness ==
    /\ Flushed
    /\ Len(Before.buffer) = 3
    /\ Range(Before.pending_removes) = {0, 2}
    /\ Before.pending_adds = <<>>

\* C8: queue_remove_entity with an index not below the buffer's length leaves
\* the removal queue as it found it, and no flush finds an index in its queue
\* that is not below the length of its buffer.
C8_OutOfRangeIgnored ==
    /\ (last_remove # NoRemove /\ last_remove.index >= last_remove.len)
           => Now.pending_removes = last_remove.before
    /\ Flushed =>
           \A k \in 1..Len(Before.pending_removes) :
               Before.pending_removes[k] < Len(Before.buffer)

\* queue_remove_entity has been called on a buffer of two entities, with
\* another removal queued, with an index past the end.
C8_Witness ==
    /\ last_remove # NoRemove
    /\ last_remove.len = 2
    /\ last_remove.index >= last_remove.len
    /\ last_remove.before # <<>>

\* The flush phase of the tick in progress has completed.
FlushPhaseDone == pc = "merge" \/ (pc = "once_returned" /\ ret = "None")

\* C6: an entity queued with queue_add_entity is in no live buffer during the
\* process phase of the tick it is queued in (or that follows it), and is in
\* its live buffer once the flush phase of that tick has completed, whether
\* or not its shape was in use before.
C6_LiveAfterFlush ==
    /\ pc = "process" => LiveIds \cap PendingIds = {}
    /\ FlushPhaseDone => PendingIds = {}

\* The same, for the entities queued to a buffer that is already live.
C6_LiveShapeOnly ==
    FlushPhaseDone =>
        \A s \in DOMAIN snap.buffers : entity_buffers[s].pending_adds = <<>>

\* C7: queue_add_entity and queue_remove_entity called during the process
\* phase leave every live buffer as the phase found it; an entity queued for
\* removal has had its process call of the tick when the phase is over, and
\* is in no buffer once the flush phase that takes it out has completed.
C7_DeferredRemoval ==
    /\ pc = "process" => LiveView.buffers = snap.buffers
    /\ pc \in {"flush", "once_returned"} =>
           \A id \in queued_free :
               \E s \in DOMAIN snap.buffers :
                   \E k \in 1..Len(snap.buffers[s]) :
                       /\ snap.buffers[s][k].id = id
                       /\ <<"entity", s, k - 1>> \in processed
    /\ \A id \in freed : id \notin LiveIds \cup PendingIds

\* A flush phase has completed that found both a removal and an addition
\* queued by the process phase before it.
C7_Witness ==
    /\ pc = "merge"
    /\ freed # {}
    /\ \E s \in DOMAIN pre_flush :
           /\ pre_flush[s].pending_removes # <<>>
           /\ pre_flush[s].pending_adds # <<>>
           /\ Ids(pre_flush[s].buffer) \cap freed # {}

\* A loop_many(Count(n), FakeDelta(d)) call in which no exit was requested.
CountFakeCall == call.kind = "many" /\ ~call.forever /\ call.fake

\* C9: loop_many(Count(n), FakeDelta(d)) with no exit requested returns None
\* after exactly n process phases and n flush phases, each process phase
\* followed by its flush phase.
C9_CountTicks ==
    CountFakeCall =>
        /\ call.flushes <= call.procs
        /\ call.procs <= call.flushes + 1
        /\ (pc = "returned" /\ ~call.exit_seen)
               => ret = "None" /\ call.procs = call.n /\ call.flushes = call.n

\* loop_many(Count(MaxCount), FakeDelta(d)) has returned with no exit
\* requested, its last tick having made a process call.
C9_Witness ==
    /\ CountFakeCall
    /\ pc = "returned"
    /\ ~call.exit_seen
    /\ call.n = MaxCount
    /\ processed # {}

\* C10: during every process call of a loop_many(Count(n), FakeDelta(d)) run,
\* the first tick's included, get_delta() is d as f32 and
\* get_delta_accurate() is d as f64.
C10_DeltaInEveryTick ==
    (CountFakeCall /\ pc = "process" /\ ProcessUnits # {})
        => delta = AsSecsF32(call.d) /\ delta_accurate = AsSecsF64(call.d)

\* C11: when exit_ok or exit_err is called during the process phase of a tick
\* of loop_many, Count or Forever, the request stays in the exit cell until
\* every process call of the tick has returned; the tick then returns it
\* without a flush, and loop_many returns that same value at once, starting
\* no further tick.
C11_ExitPropagates ==
    /\ [](call.kind = "many" =>
            /\ (pc = "process" /\ exit_called) => exit_result \in {"Ok", "Err"}
            /\ (LoopOnceHasReturned /\ exit_called) =>
                   /\ ret \in {"Ok", "Err"}
                   /\ processed = SnapUnits
                   /\ flushed = {})
    /\ [][call.kind = "many" =>
            /\ (pc = "process" /\ pc' # "process" /\ exit_called)
                   => pc' = "once_returned" /\ ret' = exit_result
            /\ (pc = "once_returned" /\ ret # "None")
                   => pc' = "returned" /\ ret' = ret]_vars

\* loop_many(Forever, ..) has returned Err after a tick in which a process
\* call asked for the exit.
C11_Witness ==
    /\ pc = "returned"
    /\ call.kind = "many"
    /\ call.forever
    /\ exit_called
    /\ ret = "Err"
    /\ processed # {}

\* C12: an entity queued for addition during the process phase of a tick that
\* returned an exit is never in a live buffer, whatever is called on the
\* Universe afterwards.
C12_ExitDiscardsStaged == exit_staged \cap LiveIds = {}

\* C13: during a process phase try_get_singleton returns what it returned
\* when the phase began, whatever is queued with queue_set_singleton; the
\* live singletons change only in the merge of a tick, where each type with a
\* queued value gets exactly the value queued last and the other types keep
\* theirs; and when a tick has gone through its merge nothing is left queued.
C13_SingletonNextTick ==
    /\ [](/\ pc = "process" =>
                \A t \in SingletonTypes :
                    TryGetSingleton(t) = Lookup(snap.singletons, t)
          /\ (pc = "once_returned" /\ ret = "None")
                => pending_new_singletons = EmptyMap)
    /\ [][(singletons' # singletons
               \/ pending_new_singletons' # pending_new_singletons) =>
            IF pc = "merge"
            THEN /\ pending_new_singletons' = EmptyMap
                 /\ \A t \in SingletonTypes :
                        TryGetSingleton(t)' =
                            IF Has(pending_new_singletons, t)
                            THEN <<pending_new_singletons[t]>>
                            ELSE TryGetSingleton(t)
            ELSE /\ singletons' = singletons
                 /\ \E t \in SingletonTypes, v \in SetValues :
                        /\ Lookup(pending_new_singletons', t) = <<v>>
                        /\ \A o \in SingletonTypes \ {t} :
                               Lookup(pending_new_singletons', o)
                                   = Lookup(pending_new_singletons, o)]_vars

\* A tick has returned in which the singleton that was live with value 1
\* during the process phase has been replaced by the value 2.
C13_Witness ==
    /\ pc = "once_returned"
    /\ ret = "None"
    /\ Lookup(snap.singletons, "G") = <<1>>
    /\ TryGetSingleton("G") = <<2>>

\* C14: no step but process_modifiers changes the authoritative number of
\* the field, whatever is queued through its views.
C14_AuthoritativeUntilFlush ==
    [][num'.number # num.number =>
          /\ last_pm'.fresh
          /\ last_pm'.calls = last_pm.calls + 1
          /\ last_pm'.before = num]_vars

\* Both views have queued modifiers, a set among them, on a field created
\* with 43, and the authoritative number is still 43.
C14_Witness ==
    /\ Len(log) = MaxOps
    /\ {log[k].view : k \in 1..Len(log)} = Views
    /\ \E k \in 1..Len(log) : log[k].modifier[1] = "Set"
    /\ \E k \in 1..Len(log) : log[k].modifier[1] # "Set"
    /\ last_pm.calls = 0
    /\ num.number = 43

\* The modifiers a process_modifiers found were Add(5) and Add(3), queued
\* through two views in either order.
TwoAdds(l) ==
    /\ Len(l) = 2
    /\ l[1].view # l[2].view
    /\ {l[1].modifier, l[2].modifier} = {<<"Add", 5>>, <<"Add", 3>>}

\* C15: Add(5) and Add(3) queued through two views in one tick, in either
\* order, give base + 8 after process_modifiers, in the first tick after
\* NumberField::new(base) as in later ticks.
C15_CommutativeMerge ==
    (last_pm.fresh /\ TwoAdds(last_pm.log))
        => num.number = (last_pm.before.number + 8) % Pow2(U8Bits)

\* The same, from the second process_modifiers on.
C15_LaterTicks ==
    (last_pm.fresh /\ last_pm.calls > 1 /\ TwoAdds(last_pm.log))
        => num.number = (last_pm.before.number + 8) % Pow2(U8Bits)

\* C16: when the last modifier queued before process_modifiers is Set(x), the
\* authoritative number after it is x, whatever was queued before the set.
C16_SetDominance ==
    (last_pm.fresh /\ last_pm.log # <<>>
        /\ last_pm.log[Len(last_pm.log)].modifier[1] = "Set")
        => num.number = last_pm.log[Len(last_pm.log)].modifier[2]

\* process_modifiers has acted on an add and a subtract queued through the
\* two views, followed by a set.
C16_Witness ==
    /\ last_pm.fresh
    /\ Len(last_pm.log) = 3
    /\ last_pm.log[3].modifier[1] = "Set"
    /\ {last_pm.log[1].modifier[1], last_pm.log[2].modifier[1]}
           = {"Add", "Sub"}
    /\ last_pm.log[1].view # last_pm.log[2].view

\* The orders in which n modifiers can reach the field.
Orders(n) ==
    {f \in [1..n -> 1..n] : \A i \in 1..n, j \in 1..n : f[i] = f[j] => i = j}

RECURSIVE StageAll(_, _)
\* The field after the modifiers of l have reached it one after the other.
StageAll(field, l) ==
    IF l = <<>> THEN field
    ELSE StageAll(Stage(field, Head(l).modifier), Tail(l))

\* C17: the authoritative number after process_modifiers is the one every
\* order of the modifiers queued since the flush before would have given.
C17_OrderIndependence ==
    last_pm.fresh =>
        \A f \in Orders(Len(last_pm.log)) :
            ProcessModifiers(
                StageAll(last_pm.before,
                         [k \in 1..Len(last_pm.log) |-> last_pm.log[f[k]]])
            ).number = num.number

\* The modifiers queued through view v since the view was taken.
Own(v) ==
    LET F[k \in 0..Len(log)] ==
            IF k = 0 THEN <<>>
            ELSE IF log[k].view = v THEN Append(F[k - 1], log[k].modifier)
                 ELSE F[k - 1]
    IN  F[Len(log)]

RECURSIVE Folded(_, _)
\* A number with the modifiers of l applied to it, a set included.
Folded(number, l) ==
    IF l = <<>> THEN number
    ELSE Folded(CASE Head(l)[1] = "Add" -> NumAddAssign(number, Head(l)[2])
                  [] Head(l)[1] = "Sub" -> NumSubAssign(number, Head(l)[2])
                  [] Head(l)[1] = "Set" -> Head(l)[2],
                Tail(l))

\* C18: a read through a view returns the authoritative number the view
\* captured with the view's own +=, -= and set applied, and nothing of what
\* other views wrote.
C18_ViewReadsOwnWrites ==
    \A v \in DOMAIN refs : RefGet(refs[v]) = Folded(num.number, Own(v))

\* The same, for views that have not called set.
C18_WithoutSet ==
    \A v \in DOMAIN refs :
        (\A k \in 1..Len(Own(v)) : Own(v)[k][1] # "Set")
            => RefGet(refs[v]) = Folded(num.number, Own(v))

\* C19: process_modifiers on a field on which nothing was queued since the
\* previous process_modifiers, or since NumberField::new(v), leaves the
\* authoritative number as it was.
C19_EmptyStageKeepsValue ==
    (last_pm.fresh /\ last_pm.log = <<>>)
        => num.number = last_pm.before.number

\* The same, from the second process_modifiers on.
C19_LaterTicks ==
    (last_pm.fresh /\ last_pm.calls > 1 /\ last_pm.log = <<>>)
        => num.number = last_pm.before.number

\* C20: a thread that locks a pair of components holds no lock of the pair
\* while it backs off after a failed try-lock, and holds both when lock()
\* has returned.
C20_AllOrNothing ==
    \A t \in ThreadIds :
        /\ threads[t].pc \in {"snooze1", "snooze2"} => Held(t) = {}
        /\ (threads[t].pc = "locked" /\ Len(threads[t].refs) = 2)
               => Held(t) = {threads[t].refs[1], threads[t].refs[2]}

\* What holds of it: no lock is held when the set is retried, and both are
\* when lock() has returned.
C20_ReleasedBeforeRetry ==
    \A t \in ThreadIds :
        /\ threads[t].pc \in {"snooze1", "try1"} => Held(t) = {}
        /\ (threads[t].pc = "locked" /\ Len(threads[t].refs) = 2)
               => Held(t) = {threads[t].refs[1], threads[t].refs[2]}

\* A thread inside a lock() call, the mutex its pending acquisition needs, and
\* whether it is waiting: blocked in Mutex::lock or backing off in snooze().
Acquiring(t) == threads[t].pc \in {"lock", "try1", "snooze1", "try2", "snooze2"}
Wanted(t) ==
    IF threads[t].pc \in {"try2", "snooze2"}
    THEN threads[t].refs[2] ELSE threads[t].refs[1]
Blocked(t) == threads[t].pc = "lock" /\ ~IsFree(Wanted(t))
Waiting(t) == Blocked(t) \/ threads[t].pc \in {"snooze1", "snooze2"}
WaitsOnWaiting(t) ==
    /\ Waiting(t)
    /\ Has(mutexes, Wanted(t))
    /\ mutexes[Wanted(t)] # t
    /\ Waiting(mutexes[Wanted(t)])

\* C21: the threads never reach a state in which every thread that is
\* acquiring waits for a lock held by another waiting thread.
C21_NoWaitCycle ==
    LET acquiring == {t \in ThreadIds : Acquiring(t)}
    IN  acquiring # {} => \E t \in acquiring : ~WaitsOnWaiting(t)

\* What holds of it: a thread blocked in Mutex::lock holds no lock, so the
\* threads that cannot take a step never wait for one another.
C21_NoBlockedCycle ==
    \A t \in ThreadIds :
        Blocked(t) => Held(t) = {} /\ ~Blocked(mutexes[Wanted(t)])

\* The components named by the RefSet of a thread's current lock() call.
CallRefs(t) == {threads[t].refs[i] : i \in 1..Len(threads[t].refs)}

\* C22: a thread that has its LockToken holds no lock and is in no lock()
\* call, the locks a thread holds are those of its one current lock() call,
\* and a token comes back only from a thread whose guard was complete, with
\* every lock of that guard released.
C22_TokenDiscipline ==
    /\ [](\A t \in ThreadIds :
            /\ threads[t].token => threads[t].pc = "idle" /\ Held(t) = {}
            /\ Held(t) \subseteq CallRefs(t))
    /\ [][\A t \in ThreadIds :
            (~threads[t].token /\ threads'[t].token)
                => /\ threads[t].pc = "locked"
                   /\ Held(t) = CallRefs(t)
                   /\ \A m \in Held(t) : ~Has(mutexes', m)]_vars

\* lock() consumed a thread's token and returned a guard of two locks, while
\* another thread has its token and holds nothing.
C22_Witness ==
    \E t \in ThreadIds, u \in ThreadIds :
        /\ threads[t].pc = "locked"
        /\ ~threads[t].token
        /\ Cardinality(Held(t)) = 2
        /\ threads[u].pc = "idle"
        /\ threads[u].token

\* C23: while the flush of a component store performs its mutation no thread
\* holds process access to the store, and while a thread holds process access
\* no flush is mutating the store.
C23_ProcessFlushExclusion ==
    /\ gate.flush = "mutate" => Holders(gate) = {}
    /\ Holders(gate) # {} => gate.flush # "mutate"

\* The flush is mutating while an acquirer that arrived after the mark has
\* its increment in the counter, and a holder of the earlier process phase
\* has released.
C23_Witness ==
    /\ gate.flush = "mutate"
    /\ Retracting(gate) # {}
    /\ \E t \in GateThreads : gate.procs[t] = "spin"

\* An acquirer whose increment meets the flush bit retracts it, and no thread
\* enters while the flush bit is set.
GateBlocksEntries ==
    [][\A t \in GateThreads :
          /\ (gate.procs[t] = "acquire" /\ gate'.procs[t] # "acquire"
                  /\ FlushBitSet(gate.counter))
                 => gate'.procs[t] = "retract"
          /\ (gate.procs[t] # "in" /\ gate'.procs[t] = "in")
                 => ~FlushBitSet(gate.counter)]_vars
\* A flush that has marked its intent goes on to its mutation, and an
\* acquirer that waits for the flush bit enters.
GateProgress ==
    /\ (gate.flush = "wait") ~> (gate.flush = "mutate")
    /\ \A t \in GateThreads :
           (gate.procs[t] = "spin") ~> (gate.procs[t] = "in")

Celled == DOMAIN flushing.cells
Stored == {flushing.buffer[k] : k \in 1..Len(flushing.buffer)}
CellsMoving == {e \in Celled : flushing.cells[e] = Moving}

\* C25: an entity's index cell that reads Freed reads Freed ever after.
C25_FreedMonotone ==
    [][\A e \in Celled :
          flushing.cells[e] = Freed => flushing'.cells[e] = Freed]_vars

\* A later flush swap-removes another element while an entity freed by an
\* earlier removal is gone from the buffer.
C25_Witness ==
    /\ flushing.pc = "swapped"
    /\ \E e \in Celled \ Stored :
           /\ flushing.cells[e] = Freed
           /\ e # flushing.buffer[flushing.index + 1]
    /\ Cardinality({e \in Celled : flushing.cells[e] = Freed}) = 2

\* C29: at every step of flush an entity whose cell reads Alive(i) is stored
\* at position i; the element to be relocated reads Moving from before the
\* swap until its index is stored, and a removed entity reads Freed from
\* before it leaves the buffer.
C29_AliveIsExact ==
    /\ \A e \in Celled : \A i \in 0..MaxAdds :
           flushing.cells[e] = Alive(i)
               => i < Len(flushing.buffer) /\ flushing.buffer[i + 1] = e
    /\ \A e \in Celled \ Stored : flushing.cells[e] = Freed
    /\ flushing.pc = "moving"
           => flushing.cells[flushing.buffer[Len(flushing.buffer)]] = Moving
    /\ flushing.pc = "swapped"
           => flushing.cells[flushing.buffer[flushing.index + 1]] = Moving
    /\ flushing.pc \in {"freed", "moving"}
           => flushing.cells[flushing.buffer[flushing.index + 1]] = Freed

\* The last element has taken the place of a removed one and its new index
\* is not stored yet, while another entity is stored behind it.
C29_Witness ==
    /\ flushing.pc = "swapped"
    /\ flushing.index = 0
    /\ Len(flushing.buffer) = 2
    /\ flushing.cells[flushing.buffer[2]] = Alive(1)

\* C30: at most one index cell reads Moving at any time, and none does when
\* flush has returned.
C30_OneMoving ==
    /\ Cardinality(CellsMoving) <= 1
    /\ flushing.pc = "idle" => CellsMoving = {}

\* A flush that relocated two elements has returned.
C30_Witness ==
    /\ flushing.pc = "idle"
    /\ Len(flushing.buffer) = 1
    /\ flushing.cells[flushing.buffer[1]] = Alive(0)
    /\ flushing.buffer[1] = 3
    /\ Cardinality({e \in Celled : flushing.cells[e] = Freed}) = 2

\* C26: an entity whose WatchedFuture gave its output to try_get in a process
\* phase is gone from the live buffer when the flush that follows has
\* completed, and that flush removes no entity whose future was Pending, Done
\* or Failed unless its removal was queued otherwise.
C26_TakenFutureRemoved ==
    futures.last.ran =>
        /\ futures.last.ok \subseteq futures.last.taken
        /\ futures.last.ok \subseteq futures.last.before
        /\ futures.last.taken \cap futures.last.after = {}
        /\ (futures.last.before \ futures.last.after)
               \subseteq (futures.last.taken \cup futures.last.queued)

\* A flush has removed the entity whose output was taken and has left the
\* entity whose future is Done and not taken.
C26_Witness ==
    /\ futures.last.ran
    /\ futures.last.ok # {}
    /\ futures.last.queued = {}
    /\ \E e \in futures.last.after :
           e \in futures.last.before /\ futures.value[e] = "Done"

\* The instructions handed to the render loop so far, batch by batch.
HandedIn(k) == Range(graphics.handed[k])
Handed == UNION {HandedIn(k) : k \in 1..Len(graphics.handed)}

\* A flush that has returned found the queue empty or pushed everything it
\* found as one batch, and left the queue empty; no instruction is in two
\* batches, twice in one, or both handed and still queued.
GfxFlushHandsAll ==
    /\ graphics.last.ran =>
           /\ graphics.current_instructions_queue = <<>>
           /\ graphics.last.batch = graphics.last.found
    /\ \A k \in 1..Len(graphics.handed) :
           /\ Cardinality(HandedIn(k)) = Len(graphics.handed[k])
           /\ \A j \in 1..Len(graphics.handed) :
                  j # k => HandedIn(j) \cap HandedIn(k) = {}
    /\ Handed \cap Range(graphics.current_instructions_queue) = {}
    /\ ~graphics.ub

\* C27: every draw instruction queued in a tick's process phase is handed to
\* the render loop, in one batch, by the flush of that tick, which leaves the
\* queue empty; none is lost or handed twice.
C27_QueuedIsHanded ==
    /\ []GfxFlushHandsAll
    /\ \A i \in 1..MaxDraws :
           (i \in Range(graphics.current_instructions_queue)) ~> (i \in Handed)

\* What holds of it: the flushes that return hand over all they found.
C27_FlushHandsAll == GfxFlushHandsAll

\* ------------------------------------------------------------------ C28
Requeued == Range(worker.requeued)

\* A thread is inside Worker::recv.
Receiving == \E t \in Callers : worker.calls[t].pc = "recv"

ReceivedBy(t, m) == worker.calls[t].pc = "got" /\ worker.calls[t].msg = m

\* C28: a message passed to Worker::requeue is returned by a later
\* Worker::recv call on the same worker, whether or not the tasks have ended
\* and whether or not they send a new result: whenever a message is in the
\* requeued queue and a thread is in recv, some recv returns that message.
C28_RequeuedIsReceived ==
    \A m \in 1..MaxMsgs :
        (m \in Requeued /\ Receiving) ~> (\E t \in Callers : ReceivedBy(t, m))

\* What the code does instead: recv hands out a requeued message only when
\* the result channel is empty and every task has ended.
C28_RequeuedOnlyAfterEnd ==
    \A t \in Callers :
        (worker.calls[t].pc = "got" /\ worker.calls[t].from = "requeued")
            => worker.tasks = {}

\* A requeued message is handed out by recv at all.
C28_Witness ==
    \E t \in Callers : worker.calls[t].pc = "got" /\ worker.calls[t].from = "requeued"

\* ------------------------------------------------------------------ C31
\* The length of the buffer a flush found, less the entities it removed.
PostRemovalLen(b) == Len(b.buffer) - Cardinality(RemovedIndices(b))

\* C31: after a flush, the entity stored at position i of the buffer holds
\* Alive(i) in its index cell, for every position i; the entities the flush
\* added stand at the positions from the post-removal length on, each with
\* the index of its position.
C31_AliveAfterFlush ==
    Flushed =>
        /\ \A k \in 1..Len(Now.buffer) : Now.buffer[k].index = Alive(k - 1)
        /\ \A k \in 1..Len(Now.buffer) :
               (Now.buffer[k].entity.id \in {e.id : e \in Range(Before.pending_adds)})
                   <=> k > PostRemovalLen(Before)

\* A flush has removed an entity that was not the last one, so that another
\* entity moved into its slot, and has added an entity.
C31_Witness ==
    /\ Flushed
    /\ Len(Before.buffer) >= 2
    /\ 0 \in Range(Before.pending_removes)
    /\ Len(Before.buffer) - 1 \notin Range(Before.pending_removes)
    /\ Before.pending_adds # <<>>

\* ------------------------------------------------------------------ C32
\* A removal or an addition of the running flush may have been applied.
PastEntityFlush == flushing.pc \in {"loop", "freed", "moving", "swapped", "adds", "idle"}

\* C32: in a flush, the flush() of every entity that was in the buffer when
\* the flush began, those queued for removal included, has returned before
\* the first removal or addition is applied, and no entity the flush appends
\* is flushed in it.
C32_EntitiesFlushedFirst ==
    flushing.entity_flush.ran =>
        /\ flushing.entity_flush.done \subseteq Range(flushing.entity_flush.start)
        /\ PastEntityFlush
               => flushing.entity_flush.done = Range(flushing.entity_flush.start)
        /\ ~PastEntityFlush
               => /\ flushing.buffer = flushing.entity_flush.start
                  /\ flushing.remove_buffer = <<>>

\* A flush has returned that removed an entity it had flushed and appended
\* an entity it did not flush.
C32_Witness ==
    /\ flushing.entity_flush.ran
    /\ flushing.pc = "idle"
    /\ Range(flushing.entity_flush.start) \ Range(flushing.buffer) # {}
    /\ Range(flushing.buffer) \ Range(flushing.entity_flush.start) # {}
    /\ Stored \cap Range(flushing.entity_flush.start) # {}

\* ------------------------------------------------------------------ C33
\* C33: in the process call of component k of an entity, neither
\* get_component::<T>() nor get_components::<T>() on its EntityReference
\* returns component k, for 1-tuples and 2-tuples, the component types equal
\* or not.
C33_SelfExcluded ==
    query.pc = "process" =>
        /\ query.asked.component # query.index
        /\ query.index \notin Range(query.asked.components)

\* Component 2 of an entity (A, A) has asked for the components of type A
\* and was given component 1 alone.
C33_Witness ==
    /\ query.pc = "process"
    /\ Len(query.entity) = 2
    /\ query.entity[1] = query.entity[2]
    /\ query.index = 2
    /\ query.asked.method = "get_components"
    /\ query.asked.components = <<1>>

\* ------------------------------------------------------------------ C34
\* C34: on the EntityReference of a 2-tuple, for every requested type T,
\* get_component::<T>() returns Some exactly when get_components::<T>() is
\* not empty and returns one of the components get_components::<T>()
\* returns, also when A and B are one type and the first component is masked.
C34_ComponentIffComponents ==
    (query.pc = "process" /\ Len(query.entity) = 2) =>
        \A T \in ComponentTypes :
            /\ GetComponent(query, T) # 0 <=> GetComponents(query, T) # <<>>
            /\ GetComponent(query, T) # 0
                   => GetComponent(query, T) \in Range(GetComponents(query, T))

\* What holds instead: get_component returns nothing that get_components
\* does not return.
C34_ComponentAmongComponents ==
    query.pc = "process" =>
        \A T \in ComponentTypes :
            GetComponent(query, T) # 0
                => GetComponent(query, T) \in Range(GetComponents(query, T))

\* ------------------------------------------------------------------ C35
\* The try_get call of thread t returns in this step.
TryGetReturns(t) == futures.calls[t].pc = "store" /\ futures'.calls[t].pc = "out"

\* Thread t is inside try_get.
InTryGet(t) == futures.calls[t].pc # "out"

\* C35: of the concurrent try_get calls on a future whose output is Done
\* exactly one returns Ok and every call that returns after it returns
\* Err(Taken); no call returns leaving the cell Moving; every call ends when
\* the threads inside try_get take their steps and no further calls keep
\* being started.
C35_OneTaker ==
    /\ [][\A t \in TryGetCallers : TryGetReturns(t) =>
             LET e == futures.calls[t].entity
                 result == TryGetResult(futures.calls[t].got)
             IN  /\ result = "Ok" => e \notin futures.ok
                 /\ e \in futures.ok => result = "Taken"
                 /\ futures'.value[e] # "Moving"]_vars
    /\ \A e \in FutureIds :
           (/\ Has(futures.value, e)
            /\ futures.value[e] = "Done"
            /\ \E t \in TryGetCallers : InTryGet(t) /\ futures.calls[t].entity = e)
               ~> (e \in futures.ok)
    /\ \/ []<><<TryGetCall>>_vars
       \/ \A t \in TryGetCallers : InTryGet(t) ~> ~InTryGet(t)

\* One call has returned Ok, a second one found Taken and is about to return
\* it, and a third one snoozes on the Moving the second one swapped in.
C35_Witness ==
    /\ 1 \in futures.ok
    /\ \E t, u \in TryGetCallers :
           /\ futures.calls[t].pc = "store"
           /\ futures.calls[t].got = "Taken"
           /\ futures.calls[u].pc = "snooze"

\* ------------------------------------------------------------------ C36
\* The places an entity stands in: a position of a live buffer, or a position
\* of the pending_adds of a live or of a pending buffer.
PlacesLive(id) ==
    {<<s, k>> : s \in DOMAIN entity_buffers, k \in 1..MaxAdds} \cap
    {<<s, k>> \in Shapes \X (1..MaxAdds) :
        /\ Has(entity_buffers, s)
        /\ k <= Len(entity_buffers[s].buffer)
        /\ entity_buffers[s].buffer[k].entity.id = id}

PlacesQueued(map, id) ==
    {<<s, k>> \in Shapes \X (1..MaxAdds) :
        /\ Has(map, s)
        /\ k <= Len(map[s].pending_adds)
        /\ map[s].pending_adds[k].id = id}

Places(id) ==
    Cardinality(PlacesLive(id))
        + Cardinality(PlacesQueued(entity_buffers, id))
        + Cardinality(PlacesQueued(pending_new_entity_buffers, id))

\* C36: no shape has a buffer in the live map and in the pending map at
\* once; every entity queued with queue_add_entity, by threads that race on
\* a new shape or not, stands in exactly one place until it is live, is never
\* lost by the merge, and is in a live buffer, once, after the ticks that
\* return None that follow.
C36_QueuedBecomesLive ==
    /\ DOMAIN entity_buffers \cap DOMAIN pending_new_entity_buffers = {}
    /\ \A id \in adders.queued :
           /\ Places(id) = 1
           /\ adders.ticks[id] = MaxTicks => Cardinality(PlacesLive(id)) = 1

\* Two threads have raced on a shape used for the first time, and both of
\* their entities are live.
C36_Witness ==
    \E s \in Shapes :
        /\ Has(entity_buffers, s)
        /\ Len(entity_buffers[s].buffer) = 2
        /\ \A k \in 1..2 :
               /\ entity_buffers[s].buffer[k].entity.id \in adders.raced
               /\ adders.ticks[entity_buffers[s].buffer[k].entity.id] = MaxTicks

\* ------------------------------------------------------------------ C37
\* Thread t is inside lock() of a pair of references.
LockingPair(t) == threads[t].pc \in {"try1", "snooze1", "try2", "snooze2"}

\* C37: a lock() call on a pair of references returns a Guard, whatever the
\* two references, those that denote one component included, when the
\* threads are scheduled fairly and every holder gives its locks up.
C37_PairLockReturns ==
    \A t \in ThreadIds : LockingPair(t) ~> (threads[t].pc = "locked")

\* The same for the pairs of two different components.
C37_DistinctPairReturns ==
    \A t \in ThreadIds :
        (LockingPair(t) /\ threads[t].refs[1] # threads[t].refs[2])
            ~> (threads[t].pc = "locked")

\* A lock() call on a pair whose references denote one component never
\* holds its Guard.
C37_SamePairNeverReturns ==
    \A t \in ThreadIds :
        (threads[t].pc = "locked" /\ Len(threads[t].refs) = 2)
            => threads[t].refs[1] # threads[t].refs[2]

\* ------------------------------------------------------------------ C38
\* The modifiers of a log are additions and subtractions only.
AddsAndSubs(l) == \A k \in 1..Len(l) : l[k].modifier[1] \in {"Add", "Sub"}

RECURSIVE NetSum(_)
\* The sum of the additions of a log less the sum of its subtractions.
NetSum(l) ==
    IF l = <<>> THEN 0
    ELSE (IF Head(l).modifier[1] = "Add" THEN Head(l).modifier[2]
          ELSE 0 - Head(l).modifier[2]) + NetSum(Tail(l))

\* C38: when process_modifiers has returned the field's accumulator holds
\* its authoritative number, and the additions and subtractions queued in
\* the tick after a process_modifiers give, at the next process_modifiers,
\* the number before them plus what was added less what was subtracted.
C38_AccumulatorFollows ==
    last_pm.fresh =>
        /\ num.new_number = num.number
        /\ (last_pm.calls > 1 /\ AddsAndSubs(last_pm.log))
               => num.number =
                      (last_pm.before.number + NetSum(last_pm.log)
                           + Len(last_pm.log) * Pow2(U8Bits)) % Pow2(U8Bits)

\* The second process_modifiers has run on a field whose number was not 0,
\* with an addition and a subtraction queued since the first one.
C38_Witness ==
    /\ last_pm.fresh
    /\ last_pm.calls > 1
    /\ last_pm.before.number # 0
    /\ AddsAndSubs(last_pm.log)
    /\ \E j, k \in 1..Len(last_pm.log) :
           last_pm.log[j].modifier[1] = "Add" /\ last_pm.log[k].modifier[1] = "Sub"

\* ------------------------------------------------------------------ C39
\* The instruction buffers in each of the four places a buffer can be in.
BuffersCirculating ==
    Len(graphics.empty)
        + (IF graphics.flush.pc = "drain" THEN 1 ELSE 0)
        + Len(graphics.filled)
        + (IF graphics.render.pc = "popped" THEN 1 ELSE 0)

\* C39: in every reachable state exactly one instruction buffer is in the
\* empty-buffer channel, in the running flush, in the filled queue or in the
\* render loop, also after the render loop has returned early on a surface
\* error; so the push onto the filled queue never finds it full.
C39_OneBuffer ==
    /\ BuffersCirculating = 1
    /\ ~graphics.ub

\* What holds: never more than one buffer circulates and no push finds the
\* filled queue full.
C39_AtMostOneBuffer ==
    /\ BuffersCirculating <= 1
    /\ ~graphics.ub

\* ------------------------------------------------------------------ C40
\* C40: when several threads call next_u64 while the shared queue is empty,
\* no refill pushes onto a full queue: the queue never holds more numbers
\* than its capacity and every push made under the refill lock succeeds.
C40_RefillFits ==
    /\ rng.queue <= rng.capacity
    /\ ~rng.ub

\* What holds: the queue never holds more numbers than its capacity, and at
\* most one thread refills at a time.
C40_OneRefiller ==
    /\ rng.queue <= rng.capacity
    /\ Cardinality({t \in RngCallers : rng.calls[t].pc = "fill"}) <= 1

====
